---- MODULE Spec2Model ----
(***************************************************************************)
(* regex-railroad.nvim: the regular-expression parser (src/parser.rs) and  *)
(* the railroad diagram generator and renderer                             *)
(* (src/railroad/renderer.rs, src/railroad/draw.rs).                       *)
(*                                                                         *)
(* A character is a string (itself when it is ASCII, its name otherwise),  *)
(* a text a sequence of characters.                                        *)
(* A call of the parser ends in one of four ways: "Ok" (a value), "Err"    *)
(* (an Error value), "Panic" (an unwrap()/expect()/arithmetic panic aborts *)
(* the call) or "Hang" (a loop whose state repeats, so it never ends).     *)
(***************************************************************************)
EXTENDS Integers, Sequences, FiniteSets, TLC

VARIABLES
    language,   \* RegExParser.language
    text,       \* RegExParser.text
    build,      \* "debug": arithmetic overflow panics; "release": it wraps
    pc,         \* position of the parse-then-render call
    parsed,     \* the result of RegExParser::parse (with the final cursor)
    diagram,    \* the result of RailroadRenderer::generate_diagram
    rows,       \* the result of RailroadRenderer::render_diagram
    rendered,   \* the result of TextRenderer::render_text (lines, highlight)
    STRING_FORMAT,  \* the lazy static table: <<>> until its first use
    calls       \* several calls side by side: the fields of each of them

vars == <<language, text, build, pc, parsed, diagram, rows, rendered,
          STRING_FORMAT, calls>>

----------------------------------------------------------------------------
(* Characters *)

Digits == {"0", "1", "2", "3", "4", "5", "6", "7", "8", "9"}

Lowers == {"a", "b", "c", "d", "e", "f", "g", "h", "i", "j", "k", "l", "m",
           "n", "o", "p", "q", "r", "s", "t", "u", "v", "w", "x", "y", "z"}

Uppers == {"A", "B", "C", "D", "E", "F", "G", "H", "I", "J", "K", "L", "M",
           "N", "O", "P", "Q", "R", "S", "T", "U", "V", "W", "X", "Y", "Z"}

\* char::to_digit(10) of a decimal digit
to_digit(c) ==
    CASE c = "0" -> 0 [] c = "1" -> 1 [] c = "2" -> 2 [] c = "3" -> 3
      [] c = "4" -> 4 [] c = "5" -> 5 [] c = "6" -> 6 [] c = "7" -> 7
      [] c = "8" -> 8 [] c = "9" -> 9

\* the decimal digit of a value 0..9 (the inverse of to_digit)
from_digit(d) ==
    CASE d = 0 -> "0" [] d = 1 -> "1" [] d = 2 -> "2" [] d = 3 -> "3"
      [] d = 4 -> "4" [] d = 5 -> "5" [] d = 6 -> "6" [] d = 7 -> "7"
      [] d = 8 -> "8" [] d = 9 -> "9"

\* The characters outside ASCII that the model's inputs use: each takes two
\* bytes in UTF-8.
NonAscii == {"U+00E9"}

\* The number of bytes of a character in the UTF-8 encoding of a String.
len_utf8(c) == IF c \in NonAscii THEN 2 ELSE 1

\* String::len(): the length in BYTES of the text.
RECURSIVE byte_len(_)
byte_len(t) == IF t = <<>> THEN 0 ELSE len_utf8(Head(t)) + byte_len(Tail(t))

SPECIAL_CHARS == {"(", ")", "[", "]", "+", "*", "$", "|", "^", "{", "}"}

\* The languages of STRING_FORMAT; the extractor rejects every other one
\* before a parser is created.
Languages == {"Python", "Rust", "Javascript"}

\* STRING_FORMAT[language].escape_char()
escape_char(lang) == "\\"

----------------------------------------------------------------------------
(* u32 counts, kept as two 16-bit limbs so that the 32-bit width is exact *)

Limb == 256 * 256

U32(n) == [hi |-> n \div Limb, lo |-> n % Limb]

\* v * 10 + d in u32: ovf tells whether the exact value exceeds 2^32 - 1,
\* val is the value modulo 2^32.
U32MulAdd(v, d) ==
    LET lo2 == v.lo * 10 + d
        hi2 == v.hi * 10 + (lo2 \div Limb)
    IN  [ovf |-> hi2 >= Limb, val |-> [hi |-> hi2 % Limb, lo |-> lo2 % Limb]]

\* v / 10 and v % 10 in u32
U32DivMod10(v) ==
    LET r  == v.hi % 10
        lo == r * Limb + v.lo
    IN  [q |-> [hi |-> v.hi \div 10, lo |-> lo \div 10], r |-> lo % 10]

\* format!("{}", v) of a u32: its decimal digits, no leading zeros
RECURSIVE U32Fmt(_)
U32Fmt(v) ==
    LET dm == U32DivMod10(v)
    IN  IF dm.q = U32(0) THEN <<from_digit(dm.r)>>
        ELSE U32Fmt(dm.q) \o <<from_digit(dm.r)>>

\* format!("{}", n) of a usize
RECURSIVE UsizeFmt(_)
UsizeFmt(n) ==
    IF n < 10 THEN <<from_digit(n)>>
    ELSE UsizeFmt(n \div 10) \o <<from_digit(n % 10)>>

----------------------------------------------------------------------------
(* The syntax tree (parser.rs, RegEx and its parts) *)

Element(v)          == [t |-> "Element", v |-> v]
Repetition(r, x)    == [t |-> "Repetition", r |-> r, x |-> x]
Alternation(v)      == [t |-> "Alternation", v |-> v]
Character(c)        == [t |-> "Character", c |-> c]
Anchor(a)           == [t |-> "Anchor", a |-> a]
Terminal(s)         == [t |-> "Terminal", s |-> s]
\* name is an Option<String>: <<>> is None, <<s>> is Some(s)
Capture(name, i, x) == [t |-> "Capture", name |-> name, i |-> i, x |-> x]

OrMore(n)     == [k |-> "OrMore", n |-> n]
ZeroOrOne     == [k |-> "ZeroOrOne"]
Exactly(n)    == [k |-> "Exactly", n |-> n]
Between(n, m) == [k |-> "Between", n |-> n, m |-> m]

CAny(v)        == [c |-> "Any", v |-> v]
CNot(v)        == [c |-> "Not", v |-> v]
CBetween(a, b) == [c |-> "Between", a |-> a, b |-> b]
CTerminal(ch)  == [c |-> "Terminal", ch |-> ch]
CMeta(m)       == [c |-> "Meta", m |-> m]

\* MetaCharacter: Word(bool), Digit(bool), Whitespace(bool), Any
MWord(b)       == [m |-> "Word", b |-> b]
MDigit(b)      == [m |-> "Digit", b |-> b]
MWhitespace(b) == [m |-> "Whitespace", b |-> b]
MAny           == [m |-> "Any"]

----------------------------------------------------------------------------
(* Results of a parser method: the value and the parser's fields after it *)

Ok(v, idx, cg) == [k |-> "Ok", v |-> v, idx |-> idx, cg |-> cg]
Err(e, idx, cg) == [k |-> "Err", v |-> e, idx |-> idx, cg |-> cg]
Panic(idx, cg) == [k |-> "Panic", v |-> <<>>, idx |-> idx, cg |-> cg]
Hang(idx, cg) == [k |-> "Hang", v |-> <<>>, idx |-> idx, cg |-> cg]

\* error.rs, Error
CharacterRange(a, b) == [e |-> "CharacterRange", a |-> a, b |-> b]
StringIterator(c, p) == [e |-> "StringIterator", c |-> c, p |-> p]
RepetitionValue(c)   == [e |-> "RepetitionValue", c |-> c]
InvalidCharacter(c, i) == [e |-> "InvalidCharacter", c |-> c, i |-> i]
InvalidParsing       == [e |-> "InvalidParsing"]

\* A parser is [text, language, build]; its mutable fields idx and
\* capture_group are passed to and returned by each method.
RegExParser(lang, t, b) == [text |-> t, language |-> lang, build |-> b]

\* RegExParser::more: the BYTE length of the text against the cursor, which
\* counts characters.
more(t, idx) == byte_len(t) > idx

\* text.chars().nth(idx) is None: peek()'s unwrap() panics
AtEnd(t, idx) == idx >= Len(t)

\* RegExParser::peek, where it does not panic
peek(t, idx) == t[idx + 1]

\* RegExParser::peek_n(1) == Some(c)
peek_n_is(t, idx, n, c) == idx + n < Len(t) /\ t[idx + n + 1] = c

\* RegExParser::consume
consume(t, idx, cg, c) ==
    IF AtEnd(t, idx) THEN Panic(idx, cg)
    ELSE IF peek(t, idx) = c THEN Ok(<<>>, idx + 1, cg)
    ELSE Err(StringIterator(c, peek(t, idx)), idx, cg)

\* RegExParser::next
next(t, idx, cg) ==
    IF AtEnd(t, idx) THEN Panic(idx, cg)
    ELSE Ok(peek(t, idx), idx + 1, cg)

\* Result::unwrap(): an Err panics
unwrap(r) == IF r.k = "Err" THEN Panic(r.idx, r.cg) ELSE r

----------------------------------------------------------------------------
(* RegExParser::repetition_group *)

\* The first loop: the minimum count, up to a ',' or the closing brace.
\* Returns Ok([min, two]), two being two_num.
RECURSIVE rg_min_loop(_, _, _, _)
rg_min_loop(p, idx, cg, min_count) ==
    LET t == p.text IN
    IF ~more(t, idx) THEN Ok([min |-> min_count, two |-> FALSE], idx, cg)
    ELSE IF AtEnd(t, idx) THEN Panic(idx, cg)
    ELSE IF peek(t, idx) = "}"
         THEN Ok([min |-> min_count, two |-> FALSE], idx, cg)
    ELSE IF peek(t, idx) \in Digits
         THEN LET ma == U32MulAdd(min_count, to_digit(peek(t, idx)))
              IN  IF ma.ovf /\ p.build = "debug" THEN Panic(idx + 1, cg)
                  ELSE rg_min_loop(p, idx + 1, cg, ma.val)
    ELSE IF peek(t, idx) = ","
         THEN Ok([min |-> min_count, two |-> TRUE], idx + 1, cg)
    ELSE Err(RepetitionValue(peek(t, idx)), idx, cg)

\* The second loop: the maximum count (an Option<u32>: <<>> or <<count>>).
RECURSIVE rg_max_loop(_, _, _, _)
rg_max_loop(p, idx, cg, max_count) ==
    LET t == p.text IN
    IF ~more(t, idx) THEN Ok(max_count, idx, cg)
    ELSE IF AtEnd(t, idx) THEN Panic(idx, cg)
    ELSE IF peek(t, idx) = "}" THEN Ok(max_count, idx, cg)
    ELSE IF peek(t, idx) \in Digits
         THEN IF max_count = <<>>
              THEN rg_max_loop(p, idx + 1, cg, <<U32(to_digit(peek(t, idx)))>>)
              ELSE LET ma == U32MulAdd(max_count[1], to_digit(peek(t, idx)))
                   IN  IF ma.ovf /\ p.build = "debug" THEN Panic(idx, cg)
                       ELSE rg_max_loop(p, idx + 1, cg, <<ma.val>>)
    ELSE Err(RepetitionValue(peek(t, idx)), idx, cg)

\* rg_type with the test of two_num inverted
rg_type_swapped(mn, max_count, idx, cg) ==
    IF max_count # <<>> THEN Ok(Between(mn.min, max_count[1]), idx, cg)
    ELSE IF mn.two THEN Ok(Exactly(mn.min), idx, cg)
    ELSE Ok(OrMore(mn.min), idx, cg)

\* repetition_group, the final match on max_count and two_num, the cursor
\* being at idx
rg_type(mn, max_count, idx, cg) ==
    IF max_count # <<>> THEN Ok(Between(mn.min, max_count[1]), idx, cg)
    ELSE IF mn.two THEN Ok(OrMore(mn.min), idx, cg)
    ELSE Ok(Exactly(mn.min), idx, cg)

\* repetition_group after its second loop returned mx:
\* if self.more() && self.peek() == '}' { self.consume('}')? }
rg_close(p, mn, mx) ==
    IF mx.k # "Ok" THEN mx
    ELSE IF ~more(p.text, mx.idx) THEN rg_type(mn.v, mx.v, mx.idx, mx.cg)
    ELSE IF AtEnd(p.text, mx.idx) THEN Panic(mx.idx, mx.cg)
    ELSE IF peek(p.text, mx.idx) = "}"
         THEN rg_type(mn.v, mx.v, mx.idx + 1, mx.cg)
    ELSE rg_type(mn.v, mx.v, mx.idx, mx.cg)

\* repetition_group after its first loop returned mn
rg_max(p, mn) ==
    IF mn.k # "Ok" THEN mn
    ELSE rg_close(p, mn, rg_max_loop(p, mn.idx, mn.cg, <<>>))

\* repetition_group after self.consume('{')? returned c
rg_min(p, c) ==
    IF c.k # "Ok" THEN c
    ELSE rg_max(p, rg_min_loop(p, c.idx, c.cg, U32(0)))

repetition_group(p, idx, cg) == rg_min(p, consume(p.text, idx, cg, "{"))

----------------------------------------------------------------------------
(* RegExParser::next_character and RegExParser::character *)

\* The class of a range's first endpoint: the endpoints the match arm accepts
RangeClass(c) ==
    IF c \in Digits THEN Digits ELSE IF c \in Lowers THEN Lowers ELSE Uppers

\* The first match of next_character: the member that starts at the cursor.
nc_first(p, idx, cg) ==
    LET t == p.text
        a == peek(t, idx)
    IN  IF a \in Digits \cup Lowers \cup Uppers
        THEN \* consume(a).unwrap(); if self.peek() == '-'
             IF AtEnd(t, idx + 1) THEN Panic(idx + 1, cg)
             ELSE IF peek(t, idx + 1) = "-"
                  THEN IF AtEnd(t, idx + 2) THEN Panic(idx + 2, cg)
                       ELSE IF peek(t, idx + 2) \in RangeClass(a)
                            THEN Ok(CBetween(CTerminal(a),
                                             CTerminal(peek(t, idx + 2))),
                                    idx + 3, cg)
                            ELSE Err(CharacterRange(a, peek(t, idx + 2)),
                                     idx + 2, cg)
                  ELSE Ok(CTerminal(a), idx + 1, cg)
        ELSE IF a = "\\"
        THEN IF AtEnd(t, idx + 1) THEN Panic(idx + 1, cg)
             ELSE LET m == peek(t, idx + 1)
                  IN  CASE m = "w" -> Ok(CMeta(MWord(TRUE)), idx + 2, cg)
                        [] m = "W" -> Ok(CMeta(MWord(FALSE)), idx + 2, cg)
                        [] m = "d" -> Ok(CMeta(MDigit(TRUE)), idx + 2, cg)
                        [] m = "D" -> Ok(CMeta(MDigit(FALSE)), idx + 2, cg)
                        [] m = "s" -> Ok(CMeta(MWhitespace(TRUE)), idx + 2, cg)
                        [] m = "S" -> Ok(CMeta(MWhitespace(FALSE)), idx + 2, cg)
                        [] OTHER   -> Ok(CTerminal("\\"), idx + 1, cg)
        ELSE Ok(CTerminal(a), idx + 1, cg)

RECURSIVE next_character(_, _, _)

\* next_character, Between(c, self.next_character()?) given the result d of
\* the inner call
nc_between(c, d) ==
    IF d.k # "Ok" THEN d ELSE Ok(CBetween(c.v, d.v), d.idx, d.cg)

\* next_character after its first match returned c: if self.peek() == '-'
nc_range(p, c) ==
    IF c.k # "Ok" THEN c
    ELSE IF AtEnd(p.text, c.idx) THEN Panic(c.idx, c.cg)
    ELSE IF peek(p.text, c.idx) = "-"
         THEN IF peek_n_is(p.text, c.idx, 1, "]") THEN c
              ELSE nc_between(c, next_character(p, c.idx, c.cg))
    ELSE c

next_character(p, idx, cg) ==
    IF AtEnd(p.text, idx) THEN Panic(idx, cg)
    ELSE nc_range(p, nc_first(p, idx, cg))

RECURSIVE character_loop(_, _, _, _)

\* character, v.push(c) given the result c of self.next_character()?
character_push(p, v, c) ==
    IF c.k # "Ok" THEN c
    ELSE character_loop(p, c.idx, c.cg, Append(v, c.v))

\* character: while self.more() && self.peek() != ']'
character_loop(p, idx, cg, v) ==
    LET t == p.text IN
    IF ~more(t, idx) THEN Ok(v, idx, cg)
    ELSE IF AtEnd(t, idx) THEN Panic(idx, cg)
    ELSE IF peek(t, idx) = "]" THEN Ok(v, idx, cg)
    ELSE character_push(p, v, next_character(p, idx, cg))

\* character_type with the two class types exchanged
character_type_swapped(match_char, v) ==
    IF v.k # "Ok" THEN v
    ELSE IF match_char THEN Ok(CNot(v.v), v.idx, v.cg)
    ELSE Ok(CAny(v.v), v.idx, v.cg)

\* character, the value returned given the result v of the loop
character_type(match_char, v) ==
    IF v.k # "Ok" THEN v
    ELSE IF match_char THEN Ok(CAny(v.v), v.idx, v.cg)
    ELSE Ok(CNot(v.v), v.idx, v.cg)

character(p, idx, cg) ==
    IF AtEnd(p.text, idx) THEN Panic(idx, cg)
    ELSE character_type(peek(p.text, idx) # "^",
                        character_loop(p, IF peek(p.text, idx) # "^"
                                          THEN idx ELSE idx + 1, cg, <<>>))

----------------------------------------------------------------------------
(* RegExParser::alternation, element, repetition and group *)

RECURSIVE alternation(_, _, _)
RECURSIVE alternation_loop(_, _, _, _)
RECURSIVE element_loop(_, _, _, _)
RECURSIVE literal_loop(_, _, _, _)

RECURSIVE name_loop(_, _, _, _)

\* name_loop that reads no character of the name
name_loop_empty(p, idx, cg, name) == Ok(name, idx, cg)

\* group, the named capture: while self.more() && self.peek() != '>'
name_loop(p, idx, cg, name) ==
    LET t == p.text IN
    IF ~more(t, idx) THEN Ok(name, idx, cg)
    ELSE IF AtEnd(t, idx) THEN Panic(idx, cg)
    ELSE IF peek(t, idx) = ">" THEN Ok(name, idx, cg)
    ELSE name_loop(p, idx + 1, cg, Append(name, peek(t, idx)))

\* group, the literal run: string = format!("{}{}", string, self.next()?)
\* given the result n of self.next()
literal_push(p, string, n) ==
    IF n.k # "Ok" THEN n
    ELSE literal_loop(p, n.idx, n.cg, Append(string, n.v))

\* group, the literal run after self.consume(fmt.escape_char())? returned e
literal_escape(p, string, e) ==
    IF e.k # "Ok" THEN e
    ELSE literal_push(p, string, next(p.text, e.idx, e.cg))

\* group, the literal run: while self.more() && !SPECIAL_CHARS.contains(..)
literal_loop(p, idx, cg, string) ==
    LET t == p.text IN
    IF ~more(t, idx) THEN Ok(Terminal(string), idx, cg)
    ELSE IF AtEnd(t, idx) THEN Panic(idx, cg)
    ELSE IF peek(t, idx) \in SPECIAL_CHARS THEN Ok(Terminal(string), idx, cg)
    \* STRING_FORMAT.get(&self.language).expect("Language is supported")
    ELSE IF p.language \notin Languages THEN Panic(idx, cg)
    ELSE IF peek(t, idx) = escape_char(p.language)
         THEN literal_escape(p, string,
                             consume(t, idx, cg, escape_char(p.language)))
    ELSE literal_push(p, string, next(t, idx, cg))

\* capture_of with self.capture_group read after the call of alternation
capture_of_late(name, i, a) ==
    IF a.k # "Ok" THEN a ELSE Ok(Capture(name, a.cg, a.v), a.idx, a.cg)

\* group, RegEx::Capture(name, self.capture_group, Box::new(a)) given the
\* result a of self.alternation()?; i is self.capture_group when the
\* expression is built, which is before the call of alternation
capture_of(name, i, a) ==
    IF a.k # "Ok" THEN a ELSE Ok(Capture(name, i, a.v), a.idx, a.cg)

\* group, the named capture after self.consume('>')? returned c
named_inner(p, nm, c) ==
    IF c.k # "Ok" THEN c
    ELSE capture_of(<<nm.v>>, c.cg + 1, alternation(p, c.idx, c.cg + 1))

\* group, the named capture after the loop over the name returned nm
named_close(p, nm) ==
    IF nm.k # "Ok" THEN nm
    ELSE named_inner(p, nm, consume(p.text, nm.idx, nm.cg, ">"))

\* group, the branch of '(': the part between the parentheses
group_paren(p, idx, cg) ==
    LET t == p.text IN
    IF AtEnd(t, idx) THEN Panic(idx, cg)
    ELSE IF peek(t, idx) = "?"
    THEN IF AtEnd(t, idx + 1) THEN Panic(idx + 1, cg)
         ELSE IF peek(t, idx + 1) = ":"
         THEN \* Unnamed capture group
              capture_of(<<>>, cg + 1, alternation(p, idx + 2, cg + 1))
         ELSE IF peek(t, idx + 1) = "<"
         THEN \* Named capture group
              named_close(p, name_loop(p, idx + 2, cg, <<>>))
         ELSE Err(InvalidCharacter("?", idx + 1), idx + 1, cg)
    ELSE alternation(p, idx, cg)

\* group, Ok(v) after the closing consume(..).unwrap() returned c
group_close(v, c) == IF c.k # "Ok" THEN c ELSE Ok(v, c.idx, c.cg)

\* group, the branch of '(' given the result a of the part between the
\* parentheses: self.consume(')').unwrap(); Ok(a)
group_paren_close(p, a) ==
    IF a.k # "Ok" THEN a
    ELSE group_close(a.v, unwrap(consume(p.text, a.idx, a.cg, ")")))

\* group, the branch of '[' given the result a of self.character()?:
\* self.consume(']').unwrap(); Ok(RegEx::Character(a))
group_class_close(p, a) ==
    IF a.k # "Ok" THEN a
    ELSE group_close(Character(a.v), unwrap(consume(p.text, a.idx, a.cg, "]")))

\* group, the branch of the escape given the result n of self.next()?
group_escape(n) ==
    IF n.k # "Ok" THEN n
    ELSE CASE n.v = "w" -> Ok(Character(CMeta(MWord(TRUE))), n.idx, n.cg)
           [] n.v = "W" -> Ok(Character(CMeta(MWord(FALSE))), n.idx, n.cg)
           [] n.v = "d" -> Ok(Character(CMeta(MDigit(TRUE))), n.idx, n.cg)
           [] n.v = "D" -> Ok(Character(CMeta(MDigit(FALSE))), n.idx, n.cg)
           [] n.v = "s" -> Ok(Character(CMeta(MWhitespace(TRUE))), n.idx, n.cg)
           [] n.v = "S" -> Ok(Character(CMeta(MWhitespace(FALSE))), n.idx, n.cg)
           [] OTHER -> Ok(Terminal(<<n.v>>), n.idx, n.cg)

group(p, idx, cg) ==
    LET t == p.text IN
    IF AtEnd(t, idx) THEN Panic(idx, cg)
    ELSE IF peek(t, idx) = "("
         THEN group_paren_close(p, group_paren(p, idx + 1, cg))
    ELSE IF peek(t, idx) = "["
         THEN group_class_close(p, character(p, idx + 1, cg))
    ELSE IF peek(t, idx) = "\\" THEN group_escape(next(t, idx + 1, cg))
    ELSE IF peek(t, idx) = "^" THEN Ok(Anchor("Start"), idx + 1, cg)
    ELSE IF peek(t, idx) = "$" THEN Ok(Anchor("End"), idx + 1, cg)
    ELSE IF peek(t, idx) = "." THEN Ok(Character(CMeta(MAny)), idx + 1, cg)
    ELSE literal_loop(p, idx, cg, <<>>)

\* repetition, Ok(RegEx::Repetition(r, Box::new(b))) given the result r of
\* self.repetition_group()?
repetition_of(b, r) ==
    IF r.k # "Ok" THEN r ELSE Ok(Repetition(r.v, b.v), r.idx, r.cg)

\* repetition_on with the arm of '+' a copy of the arm of '*'
repetition_on_plus_as_star(p, b) ==
    IF b.k # "Ok" THEN b
    ELSE IF ~more(p.text, b.idx) THEN b
    ELSE IF AtEnd(p.text, b.idx) THEN Panic(b.idx, b.cg)
    ELSE IF peek(p.text, b.idx) \in {"*", "+"}
         THEN Ok(Repetition(OrMore(U32(0)), b.v), b.idx + 1, b.cg)
    ELSE IF peek(p.text, b.idx) = "?"
         THEN Ok(Repetition(ZeroOrOne, b.v), b.idx + 1, b.cg)
    ELSE IF peek(p.text, b.idx) = "{"
         THEN repetition_of(b, repetition_group(p, b.idx, b.cg))
    ELSE b

\* repetition after self.group()? returned b: the match on the quantifier
repetition_on(p, b) ==
    IF b.k # "Ok" THEN b
    ELSE IF ~more(p.text, b.idx) THEN b
    ELSE IF AtEnd(p.text, b.idx) THEN Panic(b.idx, b.cg)
    ELSE IF peek(p.text, b.idx) = "*"
         THEN Ok(Repetition(OrMore(U32(0)), b.v), b.idx + 1, b.cg)
    ELSE IF peek(p.text, b.idx) = "+"
         THEN Ok(Repetition(OrMore(U32(1)), b.v), b.idx + 1, b.cg)
    ELSE IF peek(p.text, b.idx) = "?"
         THEN Ok(Repetition(ZeroOrOne, b.v), b.idx + 1, b.cg)
    ELSE IF peek(p.text, b.idx) = "{"
         THEN repetition_of(b, repetition_group(p, b.idx, b.cg))
    ELSE b

repetition(p, idx, cg) == repetition_on(p, group(p, idx, cg))

\* element, v.push(Box::new(r)) given the result r of self.repetition()? of
\* the iteration that began with the cursor at idx and capture_group cg.
\* An iteration in which repetition() returns Ok without moving the cursor
\* leaves idx and capture_group as they were, so the loop repeats it for ever
\* (v grows by one node each time until memory is exhausted): "Hang".
element_push(p, idx, cg, v, r) ==
    IF r.k # "Ok" THEN r
    ELSE IF r.idx = idx /\ r.cg = cg THEN Hang(idx, cg)
    ELSE element_loop(p, r.idx, r.cg, Append(v, r.v))

\* element: while self.more() && self.peek() != ')' && self.peek() != '|'
element_loop(p, idx, cg, v) ==
    LET t == p.text IN
    IF ~more(t, idx) THEN Ok(Element(v), idx, cg)
    ELSE IF AtEnd(t, idx) THEN Panic(idx, cg)
    ELSE IF peek(t, idx) \in {")", "|"} THEN Ok(Element(v), idx, cg)
    ELSE element_push(p, idx, cg, v, repetition(p, idx, cg))

element(p, idx, cg) == element_loop(p, idx, cg, <<>>)

\* alternation, v.push(Box::new(e)) given the result e of self.element()?
alternation_push(p, v, e) ==
    IF e.k # "Ok" THEN e
    ELSE alternation_loop(p, e.idx, e.cg, Append(v, e.v))

\* alternation: while self.more() && self.peek() == '|'
alternation_loop(p, idx, cg, v) ==
    LET t == p.text IN
    IF ~more(t, idx) THEN Ok(Alternation(v), idx, cg)
    ELSE IF AtEnd(t, idx) THEN Panic(idx, cg)
    ELSE IF peek(t, idx) # "|" THEN Ok(Alternation(v), idx, cg)
    ELSE alternation_push(p, v, element(p, idx + 1, cg))

\* alternation_on without the test for a separator: the vector is built and
\* wrapped even when no '|' follows
alternation_on_always(p, elem1) ==
    IF elem1.k # "Ok" THEN elem1
    ELSE alternation_loop(p, elem1.idx, elem1.cg, <<elem1.v>>)

\* alternation after self.element()? returned elem1
alternation_on(p, elem1) ==
    IF elem1.k # "Ok" THEN elem1
    ELSE IF ~more(p.text, elem1.idx) THEN elem1
    ELSE IF AtEnd(p.text, elem1.idx) THEN Panic(elem1.idx, elem1.cg)
    ELSE IF peek(p.text, elem1.idx) # "|" THEN elem1
    ELSE alternation_loop(p, elem1.idx, elem1.cg, <<elem1.v>>)

alternation(p, idx, cg) == alternation_on(p, element(p, idx, cg))

\* RegExParser::new followed by RegExParser::parse
parse(p) == alternation(p, 0, 0)

\* RegExParser_new with a capture counter that goes on from the counter of
\* a parser that exists already
RegExParser_new_counter_kept(lang, t) ==
    [language |-> lang, text |-> t, idx |-> 0,
     capture_group |->
        IF \E i \in DOMAIN calls :
              calls[i].pc # "idle" /\ calls[i].parser.capture_group > 0
        THEN 1 ELSE 0]

\* RegExParser::new: the fields of a new parser
RegExParser_new(lang, t) ==
    [language |-> lang, text |-> t, idx |-> 0, capture_group |-> 0]

\* RegExParser::parse on a parser with the fields f (self.alternation())
RegExParser_parse(f, b) ==
    alternation(RegExParser(f.language, f.text, b), f.idx, f.capture_group)

\* extract.rs, lazy_static! STRING_FORMAT: the table once it is built
StringFormats == [l \in Languages |-> [escape_character |-> escape_char(l)]]

\* Whether a parse reads STRING_FORMAT.  The literal run is its only reader,
\* and a language that the table does not hold makes that read panic
\* (expect("Language is supported")) with the cursor on a character that a
\* parse in a supported language consumes: the parse reads the table exactly
\* when the result for Language::None differs.
reads_STRING_FORMAT(lang, t, b) ==
    parse(RegExParser("None", t, b)) # parse(RegExParser(lang, t, b))

\* deref with a table that a later read writes again
deref_rewriting(table, read) ==
    IF ~read THEN table ELSE IF table = <<>> THEN StringFormats ELSE <<>>

\* lazy_static: the first dereference builds the table, the later ones
\* return the table that was built
deref(table, read) == IF read /\ table = <<>> THEN StringFormats ELSE table

----------------------------------------------------------------------------
(* railroad/sym.rs: the glyphs, each a character named after its constant.  *)
(* A row of a diagram is a sequence of characters, so its number of display *)
(* columns is its length (chars().count()).                                 *)

sym ==
    [START |-> "sym::START",
     END |-> "sym::END",
     CROSS |-> "sym::CROSS",
     J_LEFT |-> "sym::J_LEFT",
     J_RIGHT |-> "sym::J_RIGHT",
     J_UP |-> "sym::J_UP",
     J_DOWN |-> "sym::J_DOWN",
     J_LEFT_B |-> "sym::J_LEFT_B",
     J_RIGHT_B |-> "sym::J_RIGHT_B",
     L_HORZ |-> "sym::L_HORZ",
     L_HORZ_D |-> "sym::L_HORZ_D",
     L_VERT |-> "sym::L_VERT",
     L_VERT_D |-> "sym::L_VERT_D",
     L_HORZ_B |-> "sym::L_HORZ_B",
     C_TL_SQR |-> "sym::C_TL_SQR",
     C_TR_SQR |-> "sym::C_TR_SQR",
     C_BL_SQR |-> "sym::C_BL_SQR",
     C_BR_SQR |-> "sym::C_BR_SQR",
     C_TL_SQR_B |-> "sym::C_TL_SQR_B",
     C_TR_SQR_B |-> "sym::C_TR_SQR_B",
     C_BL_SQR_B |-> "sym::C_BL_SQR_B",
     C_BR_SQR_B |-> "sym::C_BR_SQR_B",
     C_TL_RND |-> "sym::C_TL_RND",
     C_TR_RND |-> "sym::C_TR_RND",
     C_BL_RND |-> "sym::C_BL_RND",
     C_BR_RND |-> "sym::C_BR_RND"]

H_PADDING == 2

\* repeat(character, n)
repeat(ch, n) == [i \in 1..n |-> ch]

----------------------------------------------------------------------------
(* The Draw nodes (railroad/renderer.rs) *)

Sequence(children)    == [n |-> "Sequence", children |-> children]
DStart                == [n |-> "Start"]
DEnd                  == [n |-> "End"]
DTerminal(txt)        == [n |-> "Terminal", text |-> txt]
DAnchor(txt)          == [n |-> "Anchor", text |-> txt]
DRepetition(inner, r) == [n |-> "Repetition", inner |-> inner, repetition |-> r]
Optional(inner)       == [n |-> "Optional", inner |-> inner]
Choice(inner)         == [n |-> "Choice", inner |-> inner]
Stack(invert, chars)  == [n |-> "Stack", invert |-> invert, characters |-> chars]
DCapture(inner, name) == [n |-> "Capture", inner |-> inner, name |-> name]

\* The result of a usize subtraction that underflowed: the debug build
\* panics in it; the release build goes on with a value of at least
\* 2^63 - 1, which is larger than every row index and every length.
Wrapped == -1

Max(a, b) == IF a >= b THEN a ELSE b

RECURSIVE height(_)
RECURSIVE max_height(_)
RECURSIVE total_height(_)
\* DrawGroup::max_height
max_height(nodes) ==
    IF nodes = <<>> THEN 0 ELSE Max(height(Head(nodes)), max_height(Tail(nodes)))

\* DrawGroup::total_height
total_height(nodes) ==
    IF nodes = <<>> THEN 0 ELSE height(Head(nodes)) + total_height(Tail(nodes))

\* Draw::height of each node
height(node) ==
    CASE node.n = "Sequence"   -> max_height(node.children)
      [] node.n = "Start"      -> 1
      [] node.n = "End"        -> 1
      [] node.n = "Terminal"   -> 3
      [] node.n = "Anchor"     -> 3
      [] node.n = "Repetition" -> height(node.inner) + 1
      [] node.n = "Optional"   -> height(node.inner) + 1
      [] node.n = "Choice"     -> total_height(node.inner)
      [] node.n = "Stack"      -> Len(node.characters) + 3
      [] node.n = "Capture"    -> height(node.inner) + 1

\* the longest of the Stack's members, 0 when there is none
RECURSIVE max_chars(_)
max_chars(strings) ==
    IF strings = <<>> THEN 0
    ELSE Max(Len(Head(strings)), max_chars(Tail(strings)))

RECURSIVE width(_)
RECURSIVE max_width(_)
\* DrawGroup::max_width
max_width(nodes) ==
    IF nodes = <<>> THEN 0 ELSE Max(width(Head(nodes)), max_width(Tail(nodes)))

\* Draw::width of each node
width(node) ==
    CASE node.n = "Sequence"   -> max_width(node.children)
      [] node.n = "Start"      -> 6
      [] node.n = "End"        -> 1
      [] node.n = "Terminal"   -> Len(node.text) + 4
      [] node.n = "Anchor"     -> Len(node.text) + 2
      [] node.n = "Repetition" -> width(node.inner) + 4
      [] node.n = "Optional"   -> width(node.inner) + 4
      [] node.n = "Choice"     -> max_width(node.inner)
      [] node.n = "Stack"      -> Max(max_chars(node.characters) + 2, 9)
      [] node.n = "Capture"    -> width(node.inner) + 4

RECURSIVE entry_height(_)
RECURSIVE max_entry_height(_)
\* DrawGroup::max_entry_height
max_entry_height(nodes) ==
    IF nodes = <<>> THEN 0
    ELSE LET h == entry_height(Head(nodes))
             m == max_entry_height(Tail(nodes))
         IN  IF h = Wrapped \/ m = Wrapped THEN Wrapped ELSE Max(h, m)

\* Draw::entry_height of each node
entry_height(node) ==
    CASE node.n = "Sequence"   -> max_entry_height(node.children)
      [] node.n = "Start"      -> 0
      [] node.n = "End"        -> 0
      [] node.n = "Terminal"   -> 1
      [] node.n = "Anchor"     -> 1
      [] node.n = "Repetition" -> entry_height(node.inner)
      [] node.n = "Optional"   ->
           IF entry_height(node.inner) = Wrapped THEN Wrapped
           ELSE entry_height(node.inner) + 1
      [] node.n = "Choice"     ->
           \* (total_height - 1) / 2
           IF total_height(node.inner) = 0 THEN Wrapped
           ELSE (total_height(node.inner) - 1) \div 2
      [] node.n = "Stack"      -> (Len(node.characters) + 3) \div 2
      [] node.n = "Capture"    ->
           IF entry_height(node.inner) = Wrapped THEN Wrapped
           ELSE entry_height(node.inner) + 1

----------------------------------------------------------------------------
(* Draw::draw.  A call returns its rows or panics.                         *)

Drawn(d)  == [k |-> "Ok", d |-> d]
DrawPanic == [k |-> "Panic", d |-> <<>>]

\* A row that could not be built: its padding has a wrapped length, which no
\* allocation can hold, so building it aborts the call.
NoRow == <<"abort">>

\* usize::div_ceil(a, 2)
div_ceil2(a) == (a + 1) \div 2

\* k blank rows of w columns
blank_rows(k, w) == [i \in 1..k |-> repeat(" ", w)]

\* Terminal::draw
draw_terminal(node) ==
    << <<sym.C_TL_SQR>> \o repeat(sym.L_HORZ, width(node) - 2) \o <<sym.C_TR_SQR>>,
       <<sym.J_LEFT, " ">> \o node.text \o <<" ", sym.J_RIGHT>>,
       <<sym.C_BL_SQR>> \o repeat(sym.L_HORZ, width(node) - 2) \o <<sym.C_BR_SQR>> >>

\* Anchor::draw
draw_anchor(node) ==
    << <<sym.C_TL_SQR_B>> \o repeat(sym.L_HORZ_B, width(node) - 2) \o <<sym.C_TR_SQR_B>>,
       <<sym.J_LEFT_B>> \o node.text \o <<sym.J_RIGHT_B>>,
       <<sym.C_BL_SQR_B>> \o repeat(sym.L_HORZ_B, width(node) - 2) \o <<sym.C_BR_SQR_B>> >>

\* Stack::draw, the row of the member at index j (0-based): diagram.len()
\* is j + 2 when it is pushed
stack_row(node, j) ==
    LET w         == width(node)
        chr       == node.characters[j + 1]
        sub_len   == Len(chr)
        left_pad  == (w - 2 - sub_len) \div 2
        right_pad == div_ceil2(w - 2 - sub_len)
        at_entry  == j + 2 = entry_height(node)
    IN  <<IF at_entry THEN sym.J_LEFT ELSE sym.L_VERT>> \o repeat(" ", left_pad)
          \o chr \o repeat(" ", right_pad)
          \o <<IF at_entry THEN sym.J_RIGHT ELSE sym.L_VERT>>

\* Stack::draw
draw_stack(node) ==
    LET w == width(node)
    IN  << IF node.invert
           THEN <<"N", "o", "n", "e", " ", "o", "f", ":">> \o repeat(" ", w - 8)
           ELSE <<"O", "n", "e", " ", "o", "f", ":">> \o repeat(" ", w - 7),
           <<sym.C_TL_SQR>> \o repeat(sym.L_HORZ, w - 2) \o <<sym.C_TR_SQR>> >>
        \o [j \in 1..Len(node.characters) |-> stack_row(node, j - 1)]
        \o << <<sym.C_BL_SQR>> \o repeat(sym.L_HORZ, w - 2) \o <<sym.C_BR_SQR>> >>

\* Repetition::draw, the description of how many repeats
desciption(r) ==
    CASE r.k = "OrMore"  -> <<" ">> \o U32Fmt(r.n) \o <<"+", " ">>
      [] r.k = "Exactly" -> <<" ">> \o U32Fmt(r.n) \o <<" ">>
      [] r.k = "Between" ->
           <<" ">> \o U32Fmt(r.n) \o <<"-">> \o U32Fmt(r.m) \o <<" ">>

\* Repetition::draw, given the rows of the inner node.  h is
\* self.entry_height(); in the release build a wrapped h matches no row and
\* is below none.
draw_repetition(node, inner, b) ==
    LET h  == entry_height(node)
        d1 == [i \in 1..Len(inner) |->
                 IF h # Wrapped /\ h = i - 1
                 THEN <<sym.J_DOWN, sym.L_HORZ>> \o inner[i] \o <<sym.L_HORZ, sym.J_DOWN>>
                 ELSE IF h # Wrapped /\ h < i - 1
                 THEN <<sym.L_VERT, " ">> \o inner[i] \o <<" ", sym.L_VERT>>
                 ELSE <<" ", " ">> \o inner[i] \o <<" ", " ">>]
        desc == desciption(node.repetition)
        \* (diagram[0].chars().count() - desciption.chars().count())
        \*     .saturating_sub(2)
        padding == Max(Len(d1[1]) - Len(desc) - 2, 0)
    IN  IF h = Wrapped /\ b = "debug" THEN DrawPanic
        ELSE IF node.repetition.k = "ZeroOrOne" THEN DrawPanic
        ELSE IF d1 = <<>> THEN DrawPanic
        \* the subtraction underflows: a panic, or a padding of more than
        \* 2^63 characters
        ELSE IF Len(d1[1]) < Len(desc) THEN DrawPanic
        ELSE Drawn(Append(d1, <<sym.C_BL_RND>> \o desc \o repeat(sym.L_HORZ, padding)
                                \o <<sym.C_BR_RND>>))

\* Optional::draw, given the rows of the inner node
draw_optional(node, inner, b) ==
    LET h  == entry_height(node)
        d1 == [i \in 1..Len(inner) |->
                 IF h # Wrapped /\ h - 1 = i - 1
                 THEN <<sym.J_UP, sym.L_HORZ>> \o inner[i] \o <<sym.L_HORZ, sym.J_UP>>
                 ELSE IF h = Wrapped \/ i - 1 < h
                 THEN <<sym.L_VERT, " ">> \o inner[i] \o <<" ", sym.L_VERT>>
                 ELSE <<" ", " ">> \o inner[i] \o <<" ", " ">>]
    IN  IF h = Wrapped /\ b = "debug" THEN DrawPanic
        ELSE IF d1 = <<>> THEN DrawPanic
        ELSE Drawn(<< <<sym.C_TL_RND>> \o repeat(sym.L_HORZ, Len(d1[1]) - 2)
                        \o <<sym.C_TR_RND>> >> \o d1)

\* Capture::draw, given the rows of the inner node
draw_capture(node, inner, b) ==
    LET h  == entry_height(node)
        d1 == [i \in 1..Len(inner) |->
                 IF h # Wrapped /\ h = i
                 THEN <<sym.CROSS, sym.L_HORZ>> \o inner[i] \o <<sym.L_HORZ, sym.CROSS>>
                 ELSE <<sym.L_VERT_D, " ">> \o inner[i] \o <<" ", sym.L_VERT_D>>]
        len_full  == Len(d1[1]) - 2
        len_name  == Len(node.name)
        left_pad  == (len_full - len_name) \div 2
        right_pad == len_full - len_name - left_pad
    IN  IF h = Wrapped /\ b = "debug" THEN DrawPanic
        ELSE IF d1 = <<>> THEN DrawPanic
        \* len_full - len_name underflows: a panic, or a padding of more
        \* than 2^63 characters
        ELSE IF len_full < len_name THEN DrawPanic
        ELSE Drawn(<< <<sym.C_TL_RND>> \o repeat(sym.L_HORZ_D, left_pad) \o node.name
                        \o repeat(sym.L_HORZ_D, right_pad) \o <<sym.C_TR_RND>> >>
                   \o d1
                   \o << <<sym.C_BL_RND>> \o repeat(sym.L_HORZ_D, len_full)
                           \o <<sym.C_BR_RND>> >>)

RECURSIVE draw(_, _)

\* seq_step with the blank rows of a taller entry put below the diagram
seq_step_rows_below(child, n, diagram_, exit_height, b) ==
    LET node == draw(child, b)
        eh   == entry_height(child)
        \* Ensure exit of previous node aligns with entry of new node
        d1   == IF exit_height < eh
                THEN diagram_ \o blank_rows(eh - exit_height, Len(diagram_[1]))
                ELSE diagram_
        n1   == IF eh < exit_height
                THEN blank_rows(exit_height - eh, Len(node.d[1])) \o node.d
                ELSE node.d
        exit == IF exit_height < eh THEN eh ELSE exit_height
        \* Add necessary padding to align new node
        n2   == IF Len(n1) < Len(d1)
                THEN n1 \o blank_rows(Len(d1) - Len(n1), Len(n1[1]))
                ELSE n1
        d2   == IF Len(d1) < Len(n1)
                THEN d1 \o blank_rows(Len(n1) - Len(d1), Len(d1[1]))
                ELSE d1
        \* Add padding
        d3   == IF n > 0
                THEN [i \in 1..Len(d2) |->
                        d2[i] \o repeat(IF i - 1 = exit THEN sym.L_HORZ ELSE " ",
                                        H_PADDING)]
                ELSE d2
        \* Append new node
        d4   == [i \in 1..Len(d3) |-> d3[i] \o n2[i]]
    IN  IF node.k # "Ok" THEN [k |-> "Panic", d |-> <<>>, exit |-> 0]
        \* a wrapped entry height: the debug build has panicked computing it,
        \* the release build inserts more than 2^63 rows
        ELSE IF eh = Wrapped THEN [k |-> "Panic", d |-> <<>>, exit |-> 0]
        \* node[0] of a node without rows
        ELSE IF eh < exit_height /\ node.d = <<>>
             THEN [k |-> "Panic", d |-> <<>>, exit |-> 0]
        ELSE IF Len(n1) < Len(d1) /\ n1 = <<>>
             THEN [k |-> "Panic", d |-> <<>>, exit |-> 0]
        ELSE [k |-> "Ok", d |-> d4, exit |-> exit]

\* Sequence::draw, one iteration of `for (n, child)`: the child at index n
\* (0-based) is drawn and joined to the diagram built so far.
seq_step(child, n, diagram_, exit_height, b) ==
    LET node == draw(child, b)
        eh   == entry_height(child)
        \* Ensure exit of previous node aligns with entry of new node
        d1   == IF exit_height < eh
                THEN blank_rows(eh - exit_height, Len(diagram_[1])) \o diagram_
                ELSE diagram_
        n1   == IF eh < exit_height
                THEN blank_rows(exit_height - eh, Len(node.d[1])) \o node.d
                ELSE node.d
        exit == IF exit_height < eh THEN eh ELSE exit_height
        \* Add necessary padding to align new node
        n2   == IF Len(n1) < Len(d1)
                THEN n1 \o blank_rows(Len(d1) - Len(n1), Len(n1[1]))
                ELSE n1
        d2   == IF Len(d1) < Len(n1)
                THEN d1 \o blank_rows(Len(n1) - Len(d1), Len(d1[1]))
                ELSE d1
        \* Add padding
        d3   == IF n > 0
                THEN [i \in 1..Len(d2) |->
                        d2[i] \o repeat(IF i - 1 = exit THEN sym.L_HORZ ELSE " ",
                                        H_PADDING)]
                ELSE d2
        \* Append new node
        d4   == [i \in 1..Len(d3) |-> d3[i] \o n2[i]]
    IN  IF node.k # "Ok" THEN [k |-> "Panic", d |-> <<>>, exit |-> 0]
        \* a wrapped entry height: the debug build has panicked computing it,
        \* the release build inserts more than 2^63 rows
        ELSE IF eh = Wrapped THEN [k |-> "Panic", d |-> <<>>, exit |-> 0]
        \* node[0] of a node without rows
        ELSE IF eh < exit_height /\ node.d = <<>>
             THEN [k |-> "Panic", d |-> <<>>, exit |-> 0]
        ELSE IF Len(n1) < Len(d1) /\ n1 = <<>>
             THEN [k |-> "Panic", d |-> <<>>, exit |-> 0]
        ELSE [k |-> "Ok", d |-> d4, exit |-> exit]

\* Sequence::draw, the loop from child n on.  Returns the diagram and the
\* running exit height.
RECURSIVE seq_loop(_, _, _, _, _)
seq_loop(children, n, diagram_, exit_height, b) ==
    IF n >= Len(children) THEN [k |-> "Ok", d |-> diagram_, exit |-> exit_height]
    ELSE LET st == seq_step(children[n + 1], n, diagram_, exit_height, b)
         IN  IF st.k # "Ok" THEN st
             ELSE seq_loop(children, n + 1, st.d, st.exit, b)

\* Sequence::draw
draw_sequence(node, b) ==
    LET r == seq_loop(node.children, 0, << <<>> >>, 0, b)
    IN  IF r.k = "Ok" THEN Drawn(r.d) ELSE DrawPanic

\* Choice::draw, the row pushed for line n (0-based) of branch i (0-based)
\* when the diagram holds len rows.  midpoint and the paddings may have
\* wrapped (release build).
choice_row(line, n, i, eh, len, choices, midpoint, w, sub_len) ==
    LET wrapped   == w < sub_len
        left_pad  == (w - sub_len) \div 2
        right_pad == div_ceil2(w - sub_len)
        at_entry  == eh # Wrapped /\ n = eh
        above     == eh = Wrapped \/ n < eh
        below     == eh # Wrapped /\ n > eh
        at_mid    == midpoint # Wrapped /\ len = midpoint
    IN  IF at_entry
        THEN IF wrapped THEN NoRow
             ELSE <<IF i = 0 THEN sym.C_TL_RND ELSE IF at_mid THEN sym.CROSS
                    ELSE IF i = choices - 1 THEN sym.C_BL_RND ELSE sym.J_RIGHT>>
                  \o repeat(sym.L_HORZ, left_pad) \o line
                  \o repeat(sym.L_HORZ, right_pad)
                  \o <<IF i = 0 THEN sym.C_TR_RND ELSE IF at_mid THEN sym.CROSS
                       ELSE IF i = choices - 1 THEN sym.C_BR_RND ELSE sym.J_LEFT>>
        ELSE IF at_mid THEN <<sym.J_LEFT>> \o line \o <<sym.J_RIGHT>>
        \* ...if first node and top or last row and bottom...
        ELSE IF (above /\ i = 0) \/ (below /\ i = choices - 1)
        THEN IF wrapped THEN NoRow
             ELSE <<" ">> \o repeat(" ", left_pad) \o line
                  \o repeat(" ", right_pad) \o <<" ">>
        \* ...otherwise add vertical line
        ELSE IF wrapped THEN NoRow
             ELSE <<sym.L_VERT>> \o repeat(" ", left_pad) \o line
                  \o repeat(" ", right_pad) \o <<sym.L_VERT>>

\* Choice::draw, the loop over the branches from branch i on
RECURSIVE choice_loop(_, _, _, _, _)
choice_loop(node, i, diagram_, midpoint, b) ==
    IF i >= Len(node.inner) THEN Drawn(diagram_)
    ELSE LET sub == draw(node.inner[i + 1], b)
             eh  == entry_height(node.inner[i + 1])
             w   == max_width(node.inner)
             new == [j \in 1..Len(sub.d) |->
                       choice_row(sub.d[j], j - 1, i, eh,
                                  Len(diagram_) + j - 1, Len(node.inner),
                                  midpoint, w, Len(sub.d[1]))]
         IN  IF sub.k # "Ok" THEN DrawPanic
             \* sub_diagram[0] of a branch without rows
             ELSE IF sub.d = <<>> THEN DrawPanic
             \* width - sub_len underflows
             ELSE IF w < Len(sub.d[1]) /\ b = "debug" THEN DrawPanic
             ELSE IF eh = Wrapped /\ b = "debug" THEN DrawPanic
             ELSE IF \E j \in 1..Len(new) : new[j] = NoRow THEN DrawPanic
             ELSE choice_loop(node, i + 1, diagram_ \o new, midpoint, b)

\* Choice::draw
draw_choice(node, b) ==
    LET total == total_height(node.inner)
        \* Zero-indexed midpoint: (total_height + 1) / 2 - 1
        midpoint == IF (total + 1) \div 2 = 0 THEN Wrapped
                    ELSE (total + 1) \div 2 - 1
    IN  IF midpoint = Wrapped /\ b = "debug" THEN DrawPanic
        ELSE choice_loop(node, 0, <<>>, midpoint, b)

\* Draw::draw of each node, in build b
draw(node, b) ==
    CASE node.n = "Sequence"   -> draw_sequence(node, b)
      [] node.n = "Start"      -> Drawn(<< <<"S", "T", "A", "R", "T", sym.START>> >>)
      [] node.n = "End"        -> Drawn(<< <<sym.END, "E", "N", "D">> >>)
      [] node.n = "Terminal"   -> Drawn(draw_terminal(node))
      [] node.n = "Anchor"     -> Drawn(draw_anchor(node))
      [] node.n = "Repetition" ->
           LET inner == draw(node.inner, b)
           IN  IF inner.k # "Ok" THEN DrawPanic
               ELSE draw_repetition(node, inner.d, b)
      [] node.n = "Optional"   ->
           LET inner == draw(node.inner, b)
           IN  IF inner.k # "Ok" THEN DrawPanic
               ELSE draw_optional(node, inner.d, b)
      [] node.n = "Choice"     -> draw_choice(node, b)
      [] node.n = "Stack"      -> Drawn(draw_stack(node))
      [] node.n = "Capture"    ->
           LET inner == draw(node.inner, b)
           IN  IF inner.k # "Ok" THEN DrawPanic
               ELSE draw_capture(node, inner.d, b)

----------------------------------------------------------------------------
(* RailroadRenderer *)

\* the string literals of the generator
Labels ==
    [LINE_START |-> <<"L", "I", "N", "E", " ", "S", "T", "A", "R", "T">>,
     LINE_END |-> <<"L", "I", "N", "E", " ", "E", "N", "D">>,
     Non |-> <<"N", "o", "n", "-">>,
     Word |-> <<"W", "o", "r", "d">>,
     Digit |-> <<"D", "i", "g", "i", "t">>,
     Whitespace |-> <<"W", "h", "i", "t", "e", "s", "p", "a", "c", "e">>,
     Any |-> <<"A", "n", "y">>,
     Group |-> <<"G", "r", "o", "u", "p", " ">>]

\* Results of the generator: a value, Err(InvalidParsing) or a panic
GOk(v)  == [k |-> "Ok", v |-> v]
GErr    == [k |-> "Err", v |-> InvalidParsing]
GPanic  == [k |-> "Panic", v |-> <<>>]

\* RailroadRenderer::render_character
RECURSIVE render_character(_)
render_character(c) ==
    CASE c.c = "Between" ->
           LET a == render_character(c.a)
               z == render_character(c.b)
           IN  IF a.k # "Ok" THEN a
               ELSE IF z.k # "Ok" THEN z
               ELSE GOk(<<"[">> \o a.v \o <<"-">> \o z.v \o <<"]">>)
      [] c.c = "Terminal" -> GOk(<<c.ch>>)
      [] c.c = "Meta" ->
           CASE c.m.m = "Word" ->
                  GOk((IF c.m.b THEN <<>> ELSE Labels.Non) \o Labels.Word)
             [] c.m.m = "Digit" ->
                  GOk((IF c.m.b THEN <<>> ELSE Labels.Non) \o Labels.Digit)
             [] c.m.m = "Whitespace" ->
                  GOk((IF c.m.b THEN <<>> ELSE Labels.Non) \o Labels.Whitespace)
             [] c.m.m = "Any" -> GOk(Labels.Any)
      [] OTHER -> GErr

\* for character in b.iter() { characters.push(render_character(character)?) }
RECURSIVE render_characters(_, _)
render_characters(v, acc) ==
    IF v = <<>> THEN GOk(acc)
    ELSE LET r == render_character(Head(v))
         IN  IF r.k # "Ok" THEN r
             ELSE render_characters(Tail(v), Append(acc, r.v))

RECURSIVE generate_diagram_element(_)

\* for i in a.iter() { seq.push(generate_diagram_element(i)?) }
RECURSIVE generate_each(_, _)
generate_each(a, seq) ==
    IF a = <<>> THEN GOk(seq)
    ELSE LET new_elem == generate_diagram_element(Head(a))
         IN  IF new_elem.k # "Ok" THEN new_elem
             ELSE generate_each(Tail(a), Append(seq, new_elem.v))

\* a.iter().map(|x| generate_diagram_element(x).unwrap()).collect()
RECURSIVE generate_unwrap_each(_, _)
generate_unwrap_each(a, seq) ==
    IF a = <<>> THEN GOk(seq)
    ELSE LET new_elem == generate_diagram_element(Head(a))
         IN  IF new_elem.k # "Ok" THEN GPanic
             ELSE generate_unwrap_each(Tail(a), Append(seq, new_elem.v))

\* RailroadRenderer::generate_diagram_element
generate_diagram_element(tree) ==
    CASE tree.t = "Terminal" -> GOk(DTerminal(tree.s))
      [] tree.t = "Repetition" ->
           LET inner == generate_diagram_element(tree.x)
           IN  IF inner.k # "Ok" THEN inner
               ELSE IF tree.r.k = "ZeroOrOne" THEN GOk(Optional(inner.v))
               ELSE GOk(DRepetition(inner.v, tree.r))
      [] tree.t = "Alternation" ->
           LET inner == generate_unwrap_each(tree.v, <<>>)
           IN  IF inner.k # "Ok" THEN inner ELSE GOk(Choice(inner.v))
      [] tree.t = "Element" ->
           LET seq == generate_each(tree.v, <<>>)
           IN  IF seq.k # "Ok" THEN seq ELSE GOk(Sequence(seq.v))
      [] tree.t = "Anchor" ->
           CASE tree.a = "Start" -> GOk(DAnchor(Labels.LINE_START))
             [] tree.a = "End"   -> GOk(DAnchor(Labels.LINE_END))
             [] OTHER            -> GOk(DAnchor(<<>>))
      [] tree.t = "Character" ->
           IF tree.c.c \in {"Any", "Not"}
           THEN LET characters == render_characters(tree.c.v, <<>>)
                IN  IF characters.k # "Ok" THEN characters
                    ELSE GOk(Stack(tree.c.c = "Not", characters.v))
           ELSE IF tree.c.c = "Meta"
           THEN LET txt == render_character(tree.c)
                IN  IF txt.k # "Ok" THEN txt ELSE GOk(DAnchor(txt.v))
           ELSE GErr
      [] tree.t = "Capture" ->
           LET inner == generate_diagram_element(tree.x)
           IN  IF inner.k # "Ok" THEN inner
               ELSE GOk(DCapture(inner.v,
                                 IF tree.name # <<>> THEN tree.name[1]
                                 ELSE Labels.Group \o UsizeFmt(tree.i)))

\* generate_diagram without the arm of a top-level Element
generate_diagram_nested(tree) ==
    LET new_elem == generate_diagram_element(tree)
    IN  IF new_elem.k # "Ok" THEN new_elem
        ELSE GOk(Sequence(<<DStart, new_elem.v, DEnd>>))

\* RailroadRenderer::generate_diagram
generate_diagram(tree) ==
    LET body == IF tree.t = "Element" THEN generate_each(tree.v, <<>>)
                ELSE LET new_elem == generate_diagram_element(tree)
                     IN  IF new_elem.k # "Ok" THEN new_elem
                         ELSE GOk(<<new_elem.v>>)
    IN  IF body.k # "Ok" THEN body
        ELSE GOk(Sequence(<<DStart>> \o body.v \o <<DEnd>>))

\* RailroadRenderer::render_diagram
render_diagram(d, b) == draw(d, b)

----------------------------------------------------------------------------
(* The text renderer (text.rs) *)

\* the string literals of text.rs
TextLabels ==
    [ EXACTLY_ |-> <<"E", "X", "A", "C", "T", "L", "Y", ":">>,
      INDENT |-> <<" ", " ", " ", " ">>,
      OR |-> <<" ", "O", "R", " ">>,
      Start |-> <<"S", "t", "a", "r", "t">>,
      End |-> <<"E", "n", "d">>,
      ZERO_OR_ONE |-> <<"0", " ", "O", "R", " ", "1", ":">>,
      OR_MORE |-> <<" ", "O", "R", " ", "M", "O", "R", "E", ":">>,
      EXACTLY |-> <<"E", "X", "A", "C", "T", "L", "Y", " ">>,
      BETWEEN |-> <<"B", "E", "T", "W", "E", "E", "N", " ">>,
      AND |-> <<" ", "A", "N", "D", " ">>,
      MATCH |-> <<"M", "A", "T", "C", "H", ":", "\n">>,
      DONT_MATCH |-> <<"D", "O", "N", "'", "T", " ", "M", "A", "T", "C", "H", ":", "\n">> ]

\* Results of render_text_element and of render_text: the string, or the
\* lines, and the highlight regions pushed so far
TOk(v, hl) == [k |-> "Ok", v |-> v, hl |-> hl]
TErr       == [k |-> "Err", v |-> InvalidParsing, hl |-> <<>>]
TPanic     == [k |-> "Panic", v |-> <<>>, hl |-> <<>>]

\* TextRenderer::render_character
RECURSIVE text_render_character(_)
text_render_character(c) ==
    CASE c.c = "Between" ->
           LET a == text_render_character(c.a)
               z == text_render_character(c.b)
           IN  IF a.k # "Ok" THEN a
               ELSE IF z.k # "Ok" THEN z
               ELSE GOk(<<"[">> \o a.v \o <<"-">> \o z.v \o <<"]">>)
      [] c.c = "Terminal" -> GOk(<<c.ch>>)
      [] OTHER -> GErr

\* for i in b.iter() { msg = format!("{}<sep>{}", msg, render_character(i)?) }
RECURSIVE text_render_characters(_, _, _, _)
text_render_characters(b, msg, sep, hl) ==
    IF b = <<>> THEN TOk(msg, hl)
    ELSE LET r == text_render_character(Head(b))
         IN  IF r.k # "Ok" THEN TErr
             ELSE text_render_characters(Tail(b), msg \o sep \o r.v, sep, hl)

\* a header msg: highlight.push((text.len(), 0, msg.len()))
push_highlight(hl, len, msg) == Append(hl, <<len, 0, byte_len(msg)>>)

RECURSIVE render_text_element(_, _, _)

\* render_text_element, the Element arm: the strings of the children, one
\* after the other
RECURSIVE rte_each(_, _, _, _)
rte_each(a, len, hl, msg) ==
    IF a = <<>> THEN TOk(msg, hl)
    ELSE LET r == render_text_element(Head(a), len, hl)
         IN  IF r.k # "Ok" THEN r
             ELSE rte_each(Tail(a), len, r.hl, msg \o r.v)

\* the Alternation arms: for i in a.iter().skip(1), "{msg} OR {i}"
RECURSIVE rte_or(_, _, _, _)
rte_or(a, len, hl, msg) ==
    IF a = <<>> THEN TOk(msg, hl)
    ELSE LET r == render_text_element(Head(a), len, hl)
         IN  IF r.k # "Ok" THEN r
             ELSE rte_or(Tail(a), len, r.hl, msg \o TextLabels.OR \o r.v)

\* the Alternation arms, given the result first of a.first().unwrap()
rte_alternation(a, len, first) ==
    IF first.k # "Ok" THEN first
    ELSE rte_or(Tail(a), len, first.hl, first.v)

\* format!("{}\n    {}", msg, render_text_element(a)?) given the result
\* inner of the call
rte_under(msg, inner) ==
    IF inner.k # "Ok" THEN inner
    ELSE TOk(msg \o <<"\n">> \o TextLabels.INDENT \o inner.v, inner.hl)

\* the header of a repetition
rte_header(r) ==
    CASE r.k = "OrMore"  -> U32Fmt(r.n) \o TextLabels.OR_MORE
      [] r.k = "Exactly" -> TextLabels.EXACTLY \o U32Fmt(r.n) \o <<":">>
      [] r.k = "Between" -> TextLabels.BETWEEN \o U32Fmt(r.n)
                              \o TextLabels.AND \o U32Fmt(r.m) \o <<":">>
      [] OTHER           -> TextLabels.ZERO_OR_ONE

\* TextRenderer::render_text_element; len is text.len(), hl the highlight
\* regions pushed so far
render_text_element(tree, len, hl) ==
    CASE tree.t = "Anchor" ->
           CASE tree.a = "Start" -> TOk(TextLabels.Start, hl)
             [] tree.a = "End"   -> TOk(TextLabels.End, hl)
             [] OTHER            -> TPanic
      [] tree.t = "Element" -> rte_each(tree.v, len, hl, <<>>)
      [] tree.t = "Repetition" ->
           IF tree.r.k = "ZeroOrOne"
           THEN rte_under(rte_header(tree.r),
                          render_text_element(tree.x, len, hl))
           ELSE rte_under(rte_header(tree.r),
                          render_text_element(tree.x, len,
                              push_highlight(hl, len, rte_header(tree.r))))
      [] tree.t = "Alternation" ->
           IF tree.v = <<>> THEN TPanic
           ELSE rte_alternation(tree.v, len,
                                render_text_element(tree.v[1], len, hl))
      [] tree.t = "Character" ->
           CASE tree.c.c = "Any" ->
                  text_render_characters(tree.c.v, TextLabels.MATCH, <<" ">>,
                      push_highlight(hl, len, TextLabels.MATCH))
             [] tree.c.c = "Not" ->
                  text_render_characters(tree.c.v, TextLabels.DONT_MATCH, <<>>,
                      push_highlight(hl, len, TextLabels.DONT_MATCH))
             [] OTHER -> TErr
      [] tree.t = "Terminal" -> TOk(<<"'">> \o tree.s \o <<"'">>, hl)
      [] tree.t = "Capture" -> TPanic

\* str::split('\n')
RECURSIVE split_lines(_, _)
split_lines(msg, line) ==
    IF msg = <<>> THEN <<line>>
    ELSE IF Head(msg) = "\n" THEN <<line>> \o split_lines(Tail(msg), <<>>)
    ELSE split_lines(Tail(msg), Append(line, Head(msg)))

RECURSIVE render_text_loop(_, _, _)

\* render_text, the Element arm, a child that is a Terminal: the indented
\* string r of the child, below the header "EXACTLY:"
rt_terminal(a, lines, r) ==
    IF r.k # "Ok" THEN r
    ELSE render_text_loop(Tail(a),
                          Append(lines, TextLabels.INDENT \o r.v), r.hl)

\* render_text, the Element arm, any other child: the lines of its string
rt_other(a, lines, r) ==
    IF r.k # "Ok" THEN r
    ELSE render_text_loop(Tail(a), lines \o split_lines(r.v, <<>>), r.hl)

\* render_text, the Element arm: for i in a.iter()
render_text_loop(a, lines, hl) ==
    IF a = <<>> THEN TOk(lines, hl)
    ELSE IF Head(a).t = "Terminal"
    THEN rt_terminal(a, Append(lines, TextLabels.EXACTLY_),
             render_text_element(Head(a), Len(lines) + 1,
                 push_highlight(hl, Len(lines), TextLabels.EXACTLY_)))
    ELSE rt_other(a, lines, render_text_element(Head(a), Len(lines), hl))

\* render_text, the Alternation arm: text.push(msg), given the result r of
\* the branches joined by OR
rt_alternation(r) ==
    IF r.k # "Ok" THEN r ELSE TOk(<<r.v>>, r.hl)

\* TextRenderer::render_text
render_text(tree) ==
    CASE tree.t = "Element" -> render_text_loop(tree.v, <<>>, <<>>)
      [] tree.t = "Alternation" ->
           IF tree.v = <<>> THEN TPanic
           ELSE rt_alternation(rte_alternation(tree.v, 0,
                                   render_text_element(tree.v[1], 0, <<>>)))
      [] OTHER -> TPanic

----------------------------------------------------------------------------
(* The inputs *)

RECURSIVE Flatten(_)
Flatten(ss) == IF ss = <<>> THEN <<>> ELSE Head(ss) \o Flatten(Tail(ss))

\* the sequences of at most n members of S
SeqsUpTo(S, n) == UNION {[1..k -> S] : k \in 0..n}

\* The regular expressions of the specification's examples and of the
\* repository's tests (parser.rs, test.rs, main.rs).
Examples ==
    { <<"a", "|", "b">>, <<"a", "*">>, <<"(", "a", "|", "b", ")", "+">>,
      <<"a", "{", "8", "}">>, <<"a", "{", "5", ",", "}">>,
      <<"a", "{", "1", ",", "1", "0", "}">>,
      <<"[", "a", "-", "z", "0", "-", "9", "]">>,
      <<"[", "^", "a", "-", "z", "]">>,
      <<"(", "?", "<", "n", "a", "m", "e", ">", "a", ")">>,
      <<"(", "?", ":", "a", ")">>, <<"(", "a", "(", "b", ")", ")">>,
      <<"a", "{", "2", ",", "4", "}">>,
      <<"^", "(", "a", "|", "b", ")", "+">>,
      <<"[", "^", "a", "o", "e", "u", "_", "0", "-", "a", "]">>,
      <<"a", "(", "b", "|", "c", "|", "d", ")", "e">>,
      <<"a", "(", "b", "|", "c", "d", "{", "2", "}", "|", "e", "|", "f", ")", "g">>,
      <<"o", "n", "e", "(", "t", "w", "o", ")", "{", "5", "}", "t", "h", "r", "e", "e">>,
      <<"(", "a", "|", "b", ")", "+", "h", "e", "l", "l", "o", "(", "c", "d", ")", "{", "5", ",", "}">>,
      <<"(", "a", "b", "|", "b", "c", "|", "c", "d", ")">> }

\* One form of each group of the grammar (literal run, parenthesised group,
\* character class, escape, anchor, '.', capture), and the separator.
ItemGroups ==
    { <<"a">>, <<"(", "a", "|", "b", "b", ")">>, <<"[", "a", "-", "z", "]">>,
      <<"\\", "w">>, <<"^">>, <<".">>, <<"(", "?", ":", "a", ")">>, <<"|">> }

ItemSuffixes ==
    { <<>>, <<"*">>, <<"?">>, <<"{", "2", ",", "}">> }

MaxItems == 2

\* Texts of at most MaxItems items, an item being a group and a quantifier.
ItemTexts ==
    {Flatten(ss) : ss \in SeqsUpTo({g \o q : g \in ItemGroups, q \in ItemSuffixes},
                                   MaxItems)}

AltChars == {"a", "b", "|", "(", ")", "*", "+"}

MaxChars == 4

\* Texts of at most MaxChars characters of literals, separators, parentheses
\* and the quantifiers '*' and '+'.
AltTexts == SeqsUpTo(AltChars, MaxChars)

QuantGroups ==
    { <<"a">>, <<"(", "a", "|", "b", ")">>, <<"[", "a", "]">> }

QuantChars == {"0", "1", "9", ",", "x"}

QuantClosers ==
    { <<"}">>, <<>> }

\* A count of eleven digits followed by a letter, and counts of several
\* digits
QuantExamples ==
    { <<"a", "{", "9", "9", "9", "9", "9", "9", "9", "9", "9", "9", "9", "x",
        "}">>,
      <<"a", "{", "1", "2", ",", "3", "4", "5", "}">>,
      <<"a", "{", "1", "0", "0", "0", ",", "2", "0", "0", "0", "0", "}">> }

MaxBody == 4

\* Texts made of a group, '{', a body of at most MaxBody characters and the
\* closing brace (or none).
QuantTexts ==
    {g \o <<"{">> \o body \o c :
        g \in QuantGroups, body \in SeqsUpTo(QuantChars, MaxBody),
        c \in QuantClosers}

CaptureToks ==
    { <<"(", "?", ":">>, <<"(", "?", "<", "n", ">">>, <<"(">>, <<")">>,
      <<"a">>, <<"|">>, <<"*">> }

MaxToks == 4

\* Texts of at most MaxToks tokens among the two capture prefixes, the
\* parentheses, a literal, the separator and a quantifier.
CaptureTexts == {Flatten(ss) : ss \in SeqsUpTo(CaptureToks, MaxToks)}

ClassChars == {"a", "z", "0", "_", "-", "^"}

MaxClass == 4

\* Character classes with upper-case endpoints
ClassExamples ==
    { <<"[", "A", "-", "Z", "a", "-", "z", "]">>, <<"[", "a", "-", "Z", "]">>,
      <<"[", "a", "-", "z", "-", "9", "]">>, <<"[", "a">> }

\* Texts made of '[', a body of at most MaxClass characters and ']'.
ClassTexts ==
    {<<"[">> \o body \o <<"]">> : body \in SeqsUpTo(ClassChars, MaxClass)}

\* Items that give each kind of Draw node: Terminal, Anchor, Choice, Stack,
\* Repetition, Optional, Capture, the empty Sequence
DrawItems ==
    { <<"a">>, <<"^">>, <<"(", "a", "|", "b", "b", ")">>,
      <<"[", "a", "-", "z", "]">>, <<"a", "*">>, <<"(", "?", ":", "a", ")">>,
      <<"a", "{", "2", ",", "4", "}">>, <<"(", "a", ")", "?">>, <<"|">>,
      <<"\\", "w">>, <<"b", "{", "1", "2", "}">>, <<"(", "a", "|", "b", "|", "c", ")">> }

MaxDraw == 2

\* Texts of at most MaxDraw of these items
DrawTexts == {Flatten(ss) : ss \in SeqsUpTo(DrawItems, MaxDraw)}

\* Digit strings: one digit, leading zeros, the largest u32 (2^32 - 1), the
\* values 2^32 and 10 * (2^32 - 1), and eleven nines
CountDigits ==
    { <<"7">>, <<"0", "0", "7">>,
      <<"4", "2", "9", "4", "9", "6", "7", "2", "9", "5">>,
      <<"4", "2", "9", "4", "9", "6", "7", "2", "9", "6">>,
      <<"4", "2", "9", "4", "9", "6", "7", "2", "9", "5", "0">>,
      <<"9", "9", "9", "9", "9", "9", "9", "9", "9", "9", "9">> }

\* The quantifiers "{n}", "{n,}", "{1,n}" and "{n,n}" on a literal, n being
\* one of these digit strings
CountTexts ==
    {<<"a", "{">> \o n \o <<"}">> : n \in CountDigits}
    \cup {<<"a", "{">> \o n \o <<",", "}">> : n \in CountDigits}
    \cup {<<"a", "{", "1", ",">> \o n \o <<"}">> : n \in CountDigits}
    \cup {<<"a", "{">> \o n \o <<",">> \o n \o <<"}">> : n \in CountDigits}

LiteralChars == {"a", "w", "U+00E9", "\\", "(", "*"}

MaxLiteral == 4

\* Texts of at most MaxLiteral characters among two letters, a character
\* outside ASCII, the escape character, a delimiter and a quantifier
LiteralTexts == SeqsUpTo(LiteralChars, MaxLiteral)

StrayChars ==
    {"a", "(", ")", "[", "]", "{", "}", "*", "+", "|", "?", "<", ">", "\\"}

MaxStray == 3

\* Texts of at most MaxStray characters among a literal, the delimiters
\* (opening and closing, matched or not), the quantifiers, the separator,
\* the characters of a capture prefix and the escape character
StrayTexts == SeqsUpTo(StrayChars, MaxStray)

\* Syntax trees handed to generate_diagram by a caller that builds them: the
\* leaves, among them Character nodes whose payload is directly a Terminal
\* or a Between
TreeLeaves ==
    { Terminal(<<"a">>), Character(CTerminal("a")),
      Character(CBetween(CTerminal("a"), CTerminal("z"))),
      Character(CAny(<<CTerminal("a")>>)) }

MaxKids == 2

\* each tree of S inside an Element, an Alternation, a Repetition and a
\* Capture
TreesOver(S) ==
    {Element(<<x>>) : x \in S} \cup {Element(<<Terminal(<<"b">>), x>>) : x \in S}
    \cup {Alternation(<<x, Element(<<Terminal(<<"b">>)>>)>>) : x \in S}
    \cup {Alternation(<<Element(<<>>), x>>) : x \in S}
    \cup {Repetition(OrMore(U32(1)), x) : x \in S}
    \cup {Repetition(ZeroOrOne, x) : x \in S}
    \cup {Capture(<<>>, 1, x) : x \in S}

\* the leaves, the Elements of at most MaxKids leaves, and these trees
\* nested once and twice
Trees ==
    LET L1 == TreeLeaves \cup {Element(v) : v \in SeqsUpTo(TreeLeaves, MaxKids)}
    IN  L1 \cup TreesOver(L1) \cup TreesOver(TreesOver(L1))

----------------------------------------------------------------------------
(* Specification: one parse-then-render call.  RegExParser::new, then      *)
(* parse, RailroadRenderer::generate_diagram and render_diagram.           *)

Builds == {"debug", "release"}

InitWith(Texts) ==
    /\ language \in Languages
    /\ text \in Texts
    /\ build \in Builds
    /\ pc = "new"
    /\ parsed = <<>>
    /\ diagram = <<>>
    /\ rows = <<>>
    /\ rendered = <<>>
    /\ STRING_FORMAT = <<>>
    /\ calls = <<>>

Init == InitWith(Examples \cup ItemTexts)

InitAlt == InitWith(Examples \cup AltTexts)

InitQuant == InitWith(Examples \cup QuantExamples \cup QuantTexts)

InitCapture == InitWith(Examples \cup CaptureTexts)

InitClass == InitWith(Examples \cup ClassExamples \cup ClassTexts)

InitDraw == InitWith(Examples \cup DrawTexts)

InitCount == InitWith(Examples \cup CountTexts)

InitLiteral == InitWith(Examples \cup LiteralTexts)

InitStray == InitWith(Examples \cup StrayTexts)

\* generate_diagram is public: it is called on the result of a parse, or on
\* a tree that the caller built
InitTree ==
    \/ InitWith(Examples)
    \/ /\ language = "Rust"
       /\ text = <<>>
       /\ build \in Builds
       /\ pc = "parsed"
       /\ parsed \in {Ok(t, 0, 0) : t \in Trees}
       /\ diagram = <<>>
       /\ rows = <<>>
       /\ rendered = <<>>
       /\ STRING_FORMAT = <<>>
       /\ calls = <<>>

Parse ==
    /\ pc = "new"
    /\ parsed' = parse(RegExParser(language, text, build))
    /\ STRING_FORMAT' = deref(STRING_FORMAT,
                              reads_STRING_FORMAT(language, text, build))
    /\ pc' = "parsed"
    /\ UNCHANGED <<language, text, build, diagram, rows, rendered, calls>>

GenerateDiagram ==
    /\ pc = "parsed"
    /\ parsed.k = "Ok"
    /\ diagram' = generate_diagram(parsed.v)
    /\ pc' = "generated"
    /\ UNCHANGED <<language, text, build, parsed, rows, rendered,
                   STRING_FORMAT, calls>>

RenderDiagram ==
    /\ pc = "generated"
    /\ diagram.k = "Ok"
    /\ rows' = render_diagram(diagram.v, build)
    /\ pc' = "rendered"
    /\ UNCHANGED <<language, text, build, parsed, diagram, rendered,
                   STRING_FORMAT, calls>>

\* The call of the text mode: TextRenderer::render_text on the parsed tree
RenderText ==
    /\ pc = "parsed"
    /\ parsed.k = "Ok"
    /\ rendered' = render_text(parsed.v)
    /\ pc' = "text"
    /\ UNCHANGED <<language, text, build, parsed, diagram, rows,
                   STRING_FORMAT, calls>>

Next == Parse \/ GenerateDiagram \/ RenderDiagram \/ RenderText

Spec == Init /\ [][Next]_vars

SpecAlt == InitAlt /\ [][Next]_vars

SpecQuant == InitQuant /\ [][Next]_vars

SpecCapture == InitCapture /\ [][Next]_vars

SpecClass == InitClass /\ [][Next]_vars

SpecDraw == InitDraw /\ [][Next]_vars

SpecTree == InitTree /\ [][Next]_vars

SpecStray == InitStray /\ [][Next]_vars

SpecLiteral == InitLiteral /\ [][Next]_vars

SpecCount == InitCount /\ [][Next]_vars

----------------------------------------------------------------------------
(* Several parse-then-render calls side by side.  Each call owns a parser *)
(* (RegExParser::new), the tree it parsed and the rows it rendered; the   *)
(* calls share the static tables only.  A step of the specification is    *)
(* one method call of one of them.                                        *)

MaxCalls == 2

Calls == 1..MaxCalls

\* The texts of the calls: a capture group, an alternation, a class (which
\* has no literal run), a quantifier, and a text whose parse panics
CallTexts ==
    { <<"(", "?", ":", "a", ")">>, <<"a", "|", "b">>,
      <<"[", "a", "-", "z", "]">>, <<"a", "{", "2", ",", "}">>, <<"(">> }

CallLanguages == {"Rust", "Python"}

\* a call that has not begun
Idle ==
    [pc |-> "idle", parser |-> <<>>, parsed |-> <<>>, diagram |-> <<>>,
     rows |-> <<>>, rendered |-> <<>>]

InitCalls ==
    /\ language = "Rust"
    /\ text = <<>>
    /\ build \in Builds
    /\ pc = "calls"
    /\ parsed = <<>>
    /\ diagram = <<>>
    /\ rows = <<>>
    /\ rendered = <<>>
    /\ STRING_FORMAT = <<>>
    /\ calls = [i \in Calls |-> Idle]

\* let mut parser = RegExParser::new(language, &text)
CallNew(i) ==
    /\ calls[i].pc = "idle"
    /\ \E lang \in CallLanguages, t \in CallTexts :
          calls' = [calls EXCEPT ![i].pc = "new",
                                 ![i].parser = RegExParser_new(lang, t)]
    /\ UNCHANGED <<language, text, build, pc, parsed, diagram, rows, rendered,
                   STRING_FORMAT>>

\* the call c after parser.parse() returned r: the parser's cursor and
\* capture counter are where the parse left them
call_parsed(c, r) ==
    [c EXCEPT !.pc = "parsed", !.parsed = r, !.parser.idx = r.idx,
              !.parser.capture_group = r.cg]

\* parser.parse()
CallParse(i) ==
    /\ calls[i].pc = "new"
    /\ calls' = [calls EXCEPT ![i] =
                    call_parsed(calls[i],
                                RegExParser_parse(calls[i].parser, build))]
    /\ STRING_FORMAT' =
          deref(STRING_FORMAT,
                reads_STRING_FORMAT(calls[i].parser.language,
                                    calls[i].parser.text, build))
    /\ UNCHANGED <<language, text, build, pc, parsed, diagram, rows, rendered>>

\* RailroadRenderer::generate_diagram(&parsed_regex)
CallGenerate(i) ==
    /\ calls[i].pc = "parsed"
    /\ calls[i].parsed.k = "Ok"
    /\ calls' = [calls EXCEPT ![i].pc = "generated",
                              ![i].diagram = generate_diagram(calls[i].parsed.v)]
    /\ UNCHANGED <<language, text, build, pc, parsed, diagram, rows, rendered,
                   STRING_FORMAT>>

\* RailroadRenderer::render_diagram(&diagram)
CallRender(i) ==
    /\ calls[i].pc = "generated"
    /\ calls[i].diagram.k = "Ok"
    /\ calls' = [calls EXCEPT ![i].pc = "rendered",
                              ![i].rows = render_diagram(calls[i].diagram.v, build)]
    /\ UNCHANGED <<language, text, build, pc, parsed, diagram, rows, rendered,
                   STRING_FORMAT>>

\* TextRenderer::render_text(&parsed_regex)
CallRenderText(i) ==
    /\ calls[i].pc = "parsed"
    /\ calls[i].parsed.k = "Ok"
    /\ calls' = [calls EXCEPT ![i].pc = "text",
                              ![i].rendered = render_text(calls[i].parsed.v)]
    /\ UNCHANGED <<language, text, build, pc, parsed, diagram, rows, rendered,
                   STRING_FORMAT>>

\* the call returns: its parser, tree and rows are dropped
CallDrop(i) ==
    /\ calls[i].pc \in {"parsed", "generated", "rendered", "text"}
    /\ calls' = [calls EXCEPT ![i] = Idle]
    /\ UNCHANGED <<language, text, build, pc, parsed, diagram, rows, rendered,
                   STRING_FORMAT>>

NextCalls ==
    \E i \in Calls :
        \/ CallNew(i)
        \/ CallParse(i)
        \/ CallGenerate(i)
        \/ CallRender(i)
        \/ CallRenderText(i)
        \/ CallDrop(i)

SpecCalls == InitCalls /\ [][NextCalls]_vars

----------------------------------------------------------------------------
(* The nodes of a tree, in pre-order *)

RECURSIVE RegExNodes(_)
RECURSIVE RegExNodesOf(_)
RegExNodesOf(v) ==
    IF v = <<>> THEN <<>> ELSE RegExNodes(Head(v)) \o RegExNodesOf(Tail(v))

\* the nodes of a syntax tree
RegExNodes(x) ==
    <<x>> \o CASE x.t \in {"Element", "Alternation"} -> RegExNodesOf(x.v)
               [] x.t \in {"Repetition", "Capture"}  -> RegExNodes(x.x)
               [] OTHER                              -> <<>>

RECURSIVE DrawNodes(_)
RECURSIVE DrawNodesOf(_)
DrawNodesOf(v) ==
    IF v = <<>> THEN <<>> ELSE DrawNodes(Head(v)) \o DrawNodesOf(Tail(v))

\* the nodes of a Draw tree
DrawNodes(d) ==
    <<d>> \o CASE d.n = "Sequence" -> DrawNodesOf(d.children)
               [] d.n = "Choice"   -> DrawNodesOf(d.inner)
               [] d.n \in {"Repetition", "Optional", "Capture"} ->
                    DrawNodes(d.inner)
               [] OTHER            -> <<>>

\* the Capture nodes of a syntax tree: their names and indices
Captures(x) ==
    LET nodes == RegExNodes(x)
        at    == {i \in 1..Len(nodes) : nodes[i].t = "Capture"}
        nth   == [k \in 1..Cardinality(at) |->
                    CHOOSE i \in at : Cardinality({j \in at : j <= i}) = k]
    IN  [k \in 1..Cardinality(at) |->
            [name |-> nodes[nth[k]].name, i |-> nodes[nth[k]].i]]

\* the diagram is generated
Generated == pc \in {"generated", "rendered"} /\ diagram.k = "Ok"

\* the parser returned
Parsed == pc # "new"

\* the result of parsing the text t on its own, as the call under way does
parse_of(t) == parse(RegExParser(language, t, build))

----------------------------------------------------------------------------
(* The drawing primitives: height, width and entry height *)

RowsMatchHeight(node, d) == d.k = "Ok" => Len(d.d) = height(node)

\* C1: for every node of the Draw tree that generate_diagram builds from a
\* parsed text, draw() returns exactly height() rows.
C1_DrawReturnsHeightRows ==
    Generated =>
        \A i \in 1..Len(DrawNodes(diagram.v)) :
            RowsMatchHeight(DrawNodes(diagram.v)[i],
                            draw(DrawNodes(diagram.v)[i], build))

RowsMatchWidth(node, d) ==
    d.k = "Ok" => \A j \in 1..Len(d.d) : Len(d.d[j]) = width(node)

\* C2: for every node of the Draw tree that generate_diagram builds from a
\* parsed text, every row returned by draw() has exactly width() columns.
C2_DrawRowsHaveWidthColumns ==
    Generated =>
        \A i \in 1..Len(DrawNodes(diagram.v)) :
            RowsMatchWidth(DrawNodes(diagram.v)[i],
                           draw(DrawNodes(diagram.v)[i], build))

\* C3: the rows returned by render_diagram(generate_diagram(parse(text)))
\* all have the same number of columns, for every text that parses.
C3_RenderedRowsEqualWidth ==
    (pc = "rendered" /\ rows.k = "Ok") =>
        \A i, j \in 1..Len(rows.d) : Len(rows.d[i]) = Len(rows.d[j])

EntryBelowHeight(node) ==
    entry_height(node) # Wrapped /\ entry_height(node) < height(node)

\* C4: entry_height() < height() for every Draw node generated from a parsed
\* text, the Sequence of an empty Element and a Choice over such branches
\* included.
C4_EntryHeightBelowHeight ==
    Generated =>
        \A i \in 1..Len(DrawNodes(diagram.v)) :
            EntryBelowHeight(DrawNodes(diagram.v)[i])

----------------------------------------------------------------------------
(* Alternation *)

\* the text holds only literals, separators, parentheses, '*' and '+': its
\* nesting is that of its parentheses
Plain(t) == \A i \in 1..Len(t) : t[i] \in AltChars

\* the number of parentheses open before the character at position i
RECURSIVE Depth(_, _)
Depth(t, i) ==
    IF i <= 1 THEN 0
    ELSE Depth(t, i - 1) + (IF t[i - 1] = "(" THEN 1
                            ELSE IF t[i - 1] = ")" THEN -1 ELSE 0)

Min(S) == CHOOSE m \in S : \A n \in S : m <= n

\* the position of the first ')' that closes nothing, where the top level
\* of the text ends (one past the text when there is none)
Stop(t) ==
    IF \E i \in 1..Len(t) : t[i] = ")" /\ Depth(t, i) = 0
    THEN Min({i \in 1..Len(t) : t[i] = ")" /\ Depth(t, i) = 0})
    ELSE Len(t) + 1

\* the positions of the separators of the top level, in input order
TopSeps(t) ==
    LET S == {i \in 1..(Stop(t) - 1) : t[i] = "|" /\ Depth(t, i) = 0}
    IN  [k \in 1..Cardinality(S) |->
            CHOOSE i \in S : Cardinality({j \in S : j <= i}) = k]

\* the text of the k-th branch of the top level
BranchText(t, seps, k) ==
    SubSeq(t, IF k = 1 THEN 1 ELSE seps[k - 1] + 1,
              IF k = Len(seps) + 1 THEN Stop(t) - 1 ELSE seps[k] - 1)

\* the branches are the Elements parsed between the separators, in order
BranchesAre(v, t, seps) ==
    /\ Len(v) = Len(seps) + 1
    /\ \A k \in 1..Len(v) :
          /\ parse_of(BranchText(t, seps, k)).k = "Ok"
          /\ v[k] = parse_of(BranchText(t, seps, k)).v
          /\ v[k].t = "Element"

\* a text in parentheses contributes what the text between them parses to
Parenthesised(t) ==
    /\ Len(t) >= 2
    /\ t[1] = "("
    /\ t[Len(t)] = ")"
    /\ Stop(SubSeq(t, 2, Len(t) - 1)) = Len(t) - 1
    /\ Depth(t, Len(t)) = 1

AB == Alternation(<<Element(<<Terminal(<<"a">>)>>),
                    Element(<<Terminal(<<"b">>)>>)>>)

\* C5: parse() returns Alternation exactly when a '|' is seen at the current
\* nesting level; its branches are the Elements parsed between the
\* separators, in input order (k separators, k + 1 branches); no Alternation
\* has fewer than two branches; with no separator the result is the bare
\* Element; "a|b" gives Alternation([Element([Terminal("a")]),
\* Element([Terminal("b")])]).
C5_Alternation ==
    (Parsed /\ parsed.k = "Ok") =>
        /\ Plain(text) =>
              /\ (parsed.v.t = "Alternation") <=> (TopSeps(text) # <<>>)
              /\ parsed.v.t = "Alternation" =>
                    BranchesAre(parsed.v.v, text, TopSeps(text))
              /\ parsed.v.t # "Alternation" => parsed.v.t = "Element"
              \* the nesting level of a group is the top level of its text
              /\ Parenthesised(text) =>
                    parsed.v =
                        Element(<<parse_of(SubSeq(text, 2, Len(text) - 1)).v>>)
        /\ \A i \in 1..Len(RegExNodes(parsed.v)) :
              RegExNodes(parsed.v)[i].t = "Alternation" =>
                  Len(RegExNodes(parsed.v)[i].v) >= 2
        /\ text = <<"a", "|", "b">> => parsed.v = AB

\* "a||b" is parsed: two separators, three branches, the middle one empty
C5_Witness ==
    /\ Parsed
    /\ text = <<"a", "|", "|", "b">>
    /\ parsed.k = "Ok"
    /\ parsed.v.t = "Alternation"
    /\ Len(parsed.v.v) = 3

----------------------------------------------------------------------------
(* Quantifiers *)

\* r is the result of parsing g, and g is one group without a quantifier
IsGroup(r, g) ==
    /\ r.k = "Ok"
    /\ r.idx = Len(g)
    /\ r.v.t = "Element"
    /\ Len(r.v.v) = 1
    /\ r.v.v[1].t # "Repetition"

\* the result of the group of r under the quantifier rep, the text being
\* consumed up to len
Quantified(r, rep, len) ==
    Ok(Element(<<Repetition(rep, r.v.v[1])>>), len, r.cg)

IsDigits(ds) == ds # <<>> /\ \A i \in 1..Len(ds) : ds[i] \in Digits

\* the decimal value of a digit string
RECURSIVE Decimal(_)
Decimal(ds) ==
    IF ds = <<>> THEN 0
    ELSE to_digit(ds[Len(ds)]) + 10 * Decimal(SubSeq(ds, 1, Len(ds) - 1))

\* the counts between the braces: <<Exactly(n)>> for "n", <<OrMore(n)>> for
\* "n,", <<Between(n, m)>> for "n,m", and <<>> for every other body
BodyType(body) ==
    LET commas == {i \in 1..Len(body) : body[i] = ","}
        c      == CHOOSE i \in commas : TRUE
        n      == SubSeq(body, 1, c - 1)
        m      == SubSeq(body, c + 1, Len(body))
    IN  IF commas = {}
        THEN IF IsDigits(body) THEN <<Exactly(U32(Decimal(body)))>> ELSE <<>>
        ELSE IF Cardinality(commas) > 1 \/ ~IsDigits(n) THEN <<>>
        ELSE IF m = <<>> THEN <<OrMore(U32(Decimal(n)))>>
        ELSE IF IsDigits(m)
             THEN <<Between(U32(Decimal(n)), U32(Decimal(m)))>>
        ELSE <<>>

\* the type of the brace quantifier q, <<>> when q is not one
BraceType(q) ==
    IF Len(q) < 3 \/ q[1] # "{" \/ q[Len(q)] # "}" THEN <<>>
    ELSE BodyType(SubSeq(q, 2, Len(q) - 1))

BraceQuantified(t, i) ==
    (/\ t[i] = "{"
     /\ BraceType(SubSeq(t, i, Len(t))) # <<>>
     /\ IsGroup(parse_of(SubSeq(t, 1, i - 1)), SubSeq(t, 1, i - 1)))
    => parsed = Quantified(parse_of(SubSeq(t, 1, i - 1)),
                           BraceType(SubSeq(t, i, Len(t)))[1], Len(t))

A_1_10 == Element(<<Repetition(Between(U32(1), U32(10)), Terminal(<<"a">>))>>)

\* C6: a group followed by a brace quantifier parses to Repetition(t, group):
\* "{n}" gives Exactly(n), "{n,}" gives OrMore(n) and "{n,m}" gives
\* Between(n, m), n and m being the decimal values of the digit strings;
\* "a{1,10}" gives Between(1, 10).
C6_BraceQuantifier ==
    Parsed =>
        /\ \A i \in 1..Len(text) : BraceQuantified(text, i)
        /\ text = <<"a", "{", "1", ",", "1", "0", "}">> =>
              parsed.k = "Ok" /\ parsed.v = A_1_10

\* "(a|b){19,}" is parsed: a multi-digit count on a parenthesised group
C6_Witness ==
    /\ Parsed
    /\ text = <<"(", "a", "|", "b", ")", "{", "1", "9", ",", "}">>
    /\ parsed.k = "Ok"
    /\ parsed.v = Element(<<Repetition(OrMore(U32(19)), AB)>>)

StarPlusQuantified(t, c, n) ==
    (/\ t # <<>>
     /\ t[Len(t)] = c
     /\ IsGroup(parse_of(SubSeq(t, 1, Len(t) - 1)), SubSeq(t, 1, Len(t) - 1)))
    => parsed = Quantified(parse_of(SubSeq(t, 1, Len(t) - 1)),
                           OrMore(U32(n)), Len(t))

\* C7: a group immediately followed by '*' parses to
\* Repetition(OrMore(0), group) and by '+' to Repetition(OrMore(1), group);
\* a parenthesised group without a '?' prefix contributes its inner
\* alternation, so "(a|b)+" gives
\* Element([Repetition(OrMore(1), Alternation([Element([Terminal("a")]),
\* Element([Terminal("b")])]))]).
C7_StarPlus ==
    Parsed =>
        /\ StarPlusQuantified(text, "*", 0)
        /\ StarPlusQuantified(text, "+", 1)
        /\ text = <<"(", "a", "|", "b", ")", "+">> =>
              /\ parsed.k = "Ok"
              /\ parsed.v = Element(<<Repetition(OrMore(U32(1)), AB)>>)

\* "(a)+" is parsed: the quantifier applies to the whole group in parentheses
C7_Witness ==
    /\ Parsed
    /\ text = <<"(", "a", ")", "+">>
    /\ parsed.k = "Ok"
    /\ parsed.v = Element(<<Repetition(OrMore(U32(1)),
                                        Element(<<Terminal(<<"a">>)>>))>>)

\* C8: for every group form g (parenthesised group, character class, escape,
\* anchor, '.', literal run), g immediately followed by '?' parses to
\* Repetition(ZeroOrOne, g), the '?' being consumed as the quantifier and
\* not as part of g.
C8_QuestionMark ==
    (/\ Parsed
     /\ text # <<>>
     /\ text[Len(text)] = "?"
     /\ IsGroup(parse_of(SubSeq(text, 1, Len(text) - 1)),
                SubSeq(text, 1, Len(text) - 1)))
    => parsed = Quantified(parse_of(SubSeq(text, 1, Len(text) - 1)),
                           ZeroOrOne, Len(text))

----------------------------------------------------------------------------
(* Capture groups *)

\* the text has no character class and no escape, so that every "(?:" and
\* "(?<" in it opens a group
NoClassNoEscape(t) == \A i \in 1..Len(t) : t[i] \notin {"[", "]", "\\"}

\* position i of t opens a capture-prefixed group
Opens(t, i) ==
    /\ i + 2 <= Len(t)
    /\ t[i] = "("
    /\ t[i + 1] = "?"
    /\ t[i + 2] \in {":", "<"}

\* the name that the prefix at position i gives: None for "(?:", the
\* characters up to the '>' for "(?<"
NameAt(t, i) ==
    IF t[i + 2] = ":" THEN <<>>
    ELSE <<SubSeq(t, i + 3,
                  Min({j \in (i + 3)..(Len(t) + 1) :
                          j = Len(t) + 1 \/ t[j] = ">"}) - 1)>>

\* the capture-prefixed openings of the first len characters of t, left to
\* right: the name and the rank of each
Openings(t, len) ==
    LET S == {i \in 1..len : Opens(t, i)}
    IN  [k \in 1..Cardinality(S) |->
            [name |-> NameAt(t, CHOOSE i \in S :
                                   Cardinality({j \in S : j <= i}) = k),
             i |-> k]]

\* a capture has a smaller index than every capture nested inside it
EnclosingFirst(x) ==
    \A i \in 1..Len(RegExNodes(x)) :
        RegExNodes(x)[i].t = "Capture" =>
            \A j \in 1..Len(Captures(RegExNodes(x)[i].x)) :
                RegExNodes(x)[i].i < Captures(RegExNodes(x)[i].x)[j].i

OneEnclosesTwo(x) ==
    \E i \in 1..Len(RegExNodes(x)) :
        /\ RegExNodes(x)[i].t = "Capture"
        /\ RegExNodes(x)[i].i = 1
        /\ \E j \in 1..Len(Captures(RegExNodes(x)[i].x)) :
              Captures(RegExNodes(x)[i].x)[j].i = 2

\* C10: parsing "(a(b))" (plain parentheses) assigns capture group index 1
\* to the outer group and index 2 to the inner group: the AST contains a
\* Capture with index 1 enclosing a Capture with index 2.
C10_PlainParenthesesCapture ==
    (Parsed /\ text = <<"(", "a", "(", "b", ")", ")">>) =>
        parsed.k = "Ok" /\ OneEnclosesTwo(parsed.v)

----------------------------------------------------------------------------
(* Character classes *)

SameClass(x, y) == \E S \in {Digits, Lowers, Uppers} : x \in S /\ y \in S

\* the text is '[', a body without ']' and without the escape character, ']'
IsClassText(t) ==
    /\ Len(t) >= 2 /\ t[1] = "[" /\ t[Len(t)] = "]"
    /\ \A i \in 2..(Len(t) - 1) : t[i] \notin {"]", "\\"}

\* the body of a class text after the '[' and the negating '^', if any
ClassBody(t) ==
    IF Len(t) >= 3 /\ t[2] = "^" THEN SubSeq(t, 3, Len(t) - 1)
    ELSE SubSeq(t, 2, Len(t) - 1)

Negated(t) == Len(t) >= 3 /\ t[2] = "^"

\* The members a class body denotes, read from left to right: x-y with both
\* endpoints of one class is a range, every other character stands alone.
RECURSIVE Members(_)
Members(b) ==
    IF b = <<>> THEN <<>>
    ELSE IF Len(b) >= 3 /\ b[2] = "-" /\ SameClass(b[1], b[3])
         THEN <<CBetween(CTerminal(b[1]), CTerminal(b[3]))>>
              \o Members(SubSeq(b, 4, Len(b)))
    ELSE <<CTerminal(b[1])>> \o Members(Tail(b))

\* every '-' of the body is the middle of a range of one class
RangesOnly(b) == \A i \in 1..Len(Members(b)) : Members(b)[i] # CTerminal("-")

ClassOf(t) ==
    IF Negated(t) THEN CNot(Members(ClassBody(t)))
    ELSE CAny(Members(ClassBody(t)))

\* C11: "[...]" parses to Character(Any(members)) and "[^...]" to
\* Character(Not(members)), the members in input order, x-y with both
\* endpoints digits, both lower-case or both upper-case letters being
\* Between(Terminal(x), Terminal(y)) and a lone character Terminal; the
\* two examples "[a-z0-9]" and "[^a-z]" give the trees of the claim.
C11_CharacterClass ==
    /\ (Parsed /\ IsClassText(text) /\ RangesOnly(ClassBody(text))) =>
            /\ parsed.k = "Ok"
            /\ parsed.v = Element(<<Character(ClassOf(text))>>)
    /\ (Parsed /\ text = <<"[", "a", "-", "z", "0", "-", "9", "]">>) =>
            parsed.v = Element(<<Character(CAny(
                <<CBetween(CTerminal("a"), CTerminal("z")),
                  CBetween(CTerminal("0"), CTerminal("9"))>>))>>)
    /\ (Parsed /\ text = <<"[", "^", "a", "-", "z", "]">>) =>
            parsed.v = Element(<<Character(CNot(
                <<CBetween(CTerminal("a"), CTerminal("z"))>>))>>)

\* a class of a lone character followed by a range is parsed
C11_Witness ==
    /\ Parsed
    /\ text = <<"[", "_", "a", "-", "z", "]">>
    /\ parsed.v = Element(<<Character(CAny(
            <<CTerminal("_"), CBetween(CTerminal("a"), CTerminal("z"))>>))>>)

\* the Between members of a class, at every depth
RECURSIVE Betweens(_)
RECURSIVE BetweensOf(_)
BetweensOf(v) ==
    IF v = <<>> THEN <<>> ELSE Betweens(Head(v)) \o BetweensOf(Tail(v))

Betweens(c) ==
    CASE c.c \in {"Any", "Not"} -> BetweensOf(c.v)
      [] c.c = "Between"        -> <<c>> \o Betweens(c.a) \o Betweens(c.b)
      [] OTHER                  -> <<>>

\* the Between members of the classes of a syntax tree
RECURSIVE TreeBetweens(_)
TreeBetweens(nodes) ==
    IF nodes = <<>> THEN <<>>
    ELSE (IF Head(nodes).t = "Character" THEN Betweens(Head(nodes).c)
          ELSE <<>>) \o TreeBetweens(Tail(nodes))

SameClassEndpoints(m) ==
    /\ m.a.c = "Terminal" /\ m.b.c = "Terminal"
    /\ SameClass(m.a.ch, m.b.ch)

\* the ranges lo-hi of a class body: the places of their '-'
RangeAt(b, i) == i > 1 /\ i < Len(b) /\ b[i] = "-"

\* C12: inside a character class, a two-endpoint range lo-hi whose endpoints
\* are not both digits, both lower-case letters or both upper-case letters
\* makes parse() return Err(CharacterRange(lo, hi)); hence every Between node
\* of a successfully parsed tree has two Terminal endpoints of one class.
C12_MismatchedRange ==
    /\ (Parsed /\ IsClassText(text) /\ Len(ClassBody(text)) = 3
           /\ RangeAt(ClassBody(text), 2)
           /\ ~SameClass(ClassBody(text)[1], ClassBody(text)[3])) =>
            /\ parsed.k = "Err"
            /\ parsed.v = CharacterRange(ClassBody(text)[1], ClassBody(text)[3])
    /\ (Parsed /\ parsed.k = "Ok") =>
            \A i \in 1..Len(TreeBetweens(RegExNodes(parsed.v))) :
                SameClassEndpoints(TreeBetweens(RegExNodes(parsed.v))[i])

----------------------------------------------------------------------------
(* Errors of the quantifier body *)

\* the place of the first '{' of the text, 0 when there is none
FirstBrace(t) ==
    IF \E i \in 1..Len(t) : t[i] = "{"
    THEN Min({i \in 1..Len(t) : t[i] = "{"}) ELSE 0

\* the body of the quantifier opened at i: up to the next '}' or the end
BraceBody(t, i) ==
    IF \E j \in (i + 1)..Len(t) : t[j] = "}"
    THEN SubSeq(t, i + 1, Min({j \in (i + 1)..Len(t) : t[j] = "}"}) - 1)
    ELSE SubSeq(t, i + 1, Len(t))

\* the places of the characters of a body that are neither digit nor comma
Offending(body) ==
    {j \in 1..Len(body) : body[j] \notin Digits \cup {","}}

\* C13: inside a quantifier body, the first character that is neither a
\* decimal digit nor a comma makes parse() return Err(RepetitionValue(c))
\* naming that character, and no syntax tree.
C13_RepetitionValue ==
    (/\ Parsed
     /\ FirstBrace(text) > 1
     /\ IsGroup(parse_of(SubSeq(text, 1, FirstBrace(text) - 1)),
                SubSeq(text, 1, FirstBrace(text) - 1))
     /\ Offending(BraceBody(text, FirstBrace(text))) # {})
    => /\ parsed.k = "Err"
       /\ parsed.v = RepetitionValue(
              BraceBody(text, FirstBrace(text))[
                  Min(Offending(BraceBody(text, FirstBrace(text))))])

----------------------------------------------------------------------------
(* Unmatched delimiters *)

\* a '(' that is never closed
UnclosedParen(t) == NoClassNoEscape(t) /\ Depth(t, Len(t) + 1) > 0

\* a ')' that closes nothing
UnopenedParen(t) ==
    NoClassNoEscape(t) /\ \E i \in 1..Len(t) : t[i] = ")" /\ Depth(t, i) = 0

\* a '[' that is never closed
UnclosedClass(t) ==
    \E i \in 1..Len(t) :
        t[i] = "[" /\ \A j \in (i + 1)..Len(t) : t[j] # "]"

\* a '{' that is never closed
UnclosedBrace(t) ==
    \E i \in 1..Len(t) :
        t[i] = "{" /\ \A j \in (i + 1)..Len(t) : t[j] # "}"

\* C14: for every text with an unmatched delimiter (a '(' or '[' that is
\* never closed, a ')' without its '(', a '{' without its '}') parse()
\* returns an Err value; it neither aborts the call nor returns Ok with a
\* syntax tree.
C14_UnmatchedDelimiter ==
    (/\ Parsed
     /\ \/ UnclosedParen(text) \/ UnopenedParen(text)
        \/ UnclosedClass(text) \/ UnclosedBrace(text))
    => parsed.k = "Err"

----------------------------------------------------------------------------
(* Sequence::draw: the alignment of the children *)

\* the state of the loop of Sequence::draw after its first n children: the
\* diagram built so far and the running exit height
SeqAfter(children, n) ==
    seq_loop(SubSeq(children, 1, n), 0, << <<>> >>, 0, build)

\* the entry row of a node: the row of draw() at index entry_height()
EntryRow(node) == draw(node, build).d[entry_height(node) + 1]

\* the entry rows of the children, joined by the horizontal line
RECURSIVE EntryRows(_)
EntryRows(children) ==
    IF children = <<>> THEN <<>>
    ELSE IF Len(children) = 1 THEN EntryRow(children[1])
    ELSE EntryRows(SubSeq(children, 1, Len(children) - 1))
         \o repeat(sym.L_HORZ, H_PADDING)
         \o EntryRow(children[Len(children)])

IsPrefix(r, row) == Len(r) <= Len(row) /\ SubSeq(row, 1, Len(r)) = r

IsBlank(r) == \A j \in 1..Len(r) : r[j] = " "

\* after child n: the exit height is the largest entry height so far, and
\* the row at the exit height carries the entry rows of the children
EntriesOnExitRow(children, n) ==
    /\ SeqAfter(children, n).exit = max_entry_height(SubSeq(children, 1, n))
    /\ SeqAfter(children, n).exit < Len(SeqAfter(children, n).d)
    /\ SeqAfter(children, n).d[SeqAfter(children, n).exit + 1]
           = EntryRows(SubSeq(children, 1, n))

\* appending child n moves the rows built before it down by the growth of
\* the exit height, unchanged, below rows that are blank under them
RowsKept(before, after) ==
    /\ after.exit >= before.exit
    /\ \A i \in 1..Len(before.d) :
           IsPrefix(before.d[i], after.d[i + after.exit - before.exit])
    /\ \A i \in 1..(after.exit - before.exit) :
           IsBlank(SubSeq(after.d[i], 1, Len(before.d[1])))

SequenceAligned(node) ==
    /\ \A n \in 1..Len(node.children) :
           SeqAfter(node.children, n).k = "Ok" =>
              /\ EntriesOnExitRow(node.children, n)
              /\ RowsKept(SeqAfter(node.children, n - 1),
                          SeqAfter(node.children, n))
    /\ SeqAfter(node.children, Len(node.children)).k = "Ok" =>
           SeqAfter(node.children, Len(node.children)).exit
              = entry_height(node)

\* C15: in Sequence::draw, after each child is appended the entry rows of
\* the children appended so far lie on one row, whose index is the running
\* exit height and finally Sequence::entry_height(); when a child's entry
\* height exceeds the running exit height only blank rows are inserted above
\* the diagram built so far, whose rows keep their content and order.
C15_SequenceAlignment ==
    Generated =>
        \A i \in 1..Len(DrawNodes(diagram.v)) :
            DrawNodes(diagram.v)[i].n = "Sequence" =>
                SequenceAligned(DrawNodes(diagram.v)[i])

\* "a" is drawn: the Terminal, of entry height 1, comes after the Start
\* marker, of entry height 0, and moves its row down by exactly one row
C15_Witness ==
    /\ pc = "rendered"
    /\ text = <<"a">>
    /\ rows.k = "Ok"
    /\ diagram.v.children[2].n = "Terminal"
    /\ SeqAfter(diagram.v.children, 1).exit = 0
    /\ SeqAfter(diagram.v.children, 2).exit = 1
    /\ Len(SeqAfter(diagram.v.children, 1).d) = 1
    /\ IsPrefix(SeqAfter(diagram.v.children, 1).d[1],
                SeqAfter(diagram.v.children, 2).d[2])
    /\ rows.d[2] = EntryRows(diagram.v.children)

----------------------------------------------------------------------------
(* Choice: the height, the entry height and the midpoint row *)

\* the sum of the heights of the branches
RECURSIVE SumHeights(_)
SumHeights(nodes) ==
    IF nodes = <<>> THEN 0 ELSE height(Head(nodes)) + SumHeights(Tail(nodes))

\* a row of a Choice that carries the junction of the through line: it
\* starts with the junction that opens to the left, or with a cross
IsJunctionRow(row) == row # <<>> /\ row[1] \in {sym.J_LEFT, sym.CROSS}

ChoiceHeights(node) ==
    /\ height(node) = SumHeights(node.inner)
    /\ entry_height(node) # Wrapped
    /\ entry_height(node) = (height(node) - 1) \div 2

\* the junction row of the rows d is the row at index entry_height()
MidpointAtEntry(node, d) ==
    d.k = "Ok" =>
        \A j \in 1..Len(d.d) :
            IsJunctionRow(d.d[j]) <=> j - 1 = entry_height(node)

\* C16: for a Choice, height() is the sum of the branch heights and
\* entry_height() is floor((height() - 1) / 2), and the row of draw() that
\* carries the junction of the through line has index entry_height(), for
\* every combination of branch heights.
C16_ChoiceMidpoint ==
    Generated =>
        \A i \in 1..Len(DrawNodes(diagram.v)) :
            DrawNodes(diagram.v)[i].n = "Choice" =>
                /\ ChoiceHeights(DrawNodes(diagram.v)[i])
                /\ MidpointAtEntry(DrawNodes(diagram.v)[i],
                                   draw(DrawNodes(diagram.v)[i], build))

----------------------------------------------------------------------------
(* Repetition::draw: the bottom row *)

\* the bottom row of a bar of the given width: a corner, the description,
\* the padding and a corner
BottomRow(desc, w) ==
    <<sym.C_BL_RND>> \o desc \o repeat(sym.L_HORZ, w - 2 - Len(desc))
        \o <<sym.C_BR_RND>>

Described(r) ==
    CASE r.k = "OrMore"  -> <<" ">> \o U32Fmt(r.n) \o <<"+", " ">>
      [] r.k = "Exactly" -> <<" ">> \o U32Fmt(r.n) \o <<" ">>
      [] r.k = "Between" ->
           <<" ">> \o U32Fmt(r.n) \o <<"-">> \o U32Fmt(r.m) \o <<" ">>

\* d is the drawing of the Repetition node, its inner node being drawn
BottomRowFits(node, d) ==
    draw(node.inner, build).k = "Ok" =>
        /\ d.k = "Ok"
        /\ Len(d.d) = Len(draw(node.inner, build).d) + 1
        /\ Len(d.d[1]) - 2 - Len(Described(node.repetition)) >= 0
        /\ d.d[Len(d.d)] = BottomRow(Described(node.repetition), Len(d.d[1]))
        /\ \A j \in 1..Len(d.d) : Len(d.d[j]) = Len(d.d[Len(d.d)])

\* C17: Repetition::draw appends exactly one bottom row made of a corner,
\* the description (" N+ ", " N " or " N-M "), horizontal padding and a
\* corner; the padding is the width of the bar minus the length of the
\* description and is never negative, so the bottom row is as wide as the
\* rows above it; "a{2,4}" gives the description " 2-4 ".
C17_RepetitionBottomRow ==
    Generated =>
        \A i \in 1..Len(DrawNodes(diagram.v)) :
            DrawNodes(diagram.v)[i].n = "Repetition" =>
                BottomRowFits(DrawNodes(diagram.v)[i],
                              draw(DrawNodes(diagram.v)[i], build))

----------------------------------------------------------------------------
(* Diagram generation *)

\* a Character node whose payload is directly a Between or a Terminal
IsBareCharacter(x) == x.t = "Character" /\ x.c.c \in {"Between", "Terminal"}

HasBareCharacter(x) ==
    \E i \in 1..Len(RegExNodes(x)) : IsBareCharacter(RegExNodes(x)[i])

\* C18: generate_diagram returns Err(InvalidParsing), and no diagram, for
\* every syntax tree that contains a Character node whose payload is
\* directly Between or Terminal, at whatever depth (a branch of an
\* Alternation included); it never aborts instead.
C18_InvalidParsing ==
    (pc \in {"generated", "rendered"} /\ HasBareCharacter(parsed.v)) =>
        diagram = GErr

\* the kind of Draw node generated for a syntax tree
KindOf(x) ==
    CASE x.t = "Terminal"    -> "Terminal"
      [] x.t = "Repetition"  -> IF x.r.k = "ZeroOrOne" THEN "Optional"
                                ELSE "Repetition"
      [] x.t = "Alternation" -> "Choice"
      [] x.t = "Element"     -> "Sequence"
      [] x.t = "Anchor"      -> "Anchor"
      [] x.t = "Character"   -> IF x.c.c = "Meta" THEN "Anchor" ELSE "Stack"
      [] x.t = "Capture"     -> "Capture"

\* the trees whose nodes lie between Start and End: the children of a
\* top-level Element, or the root itself
TopLevel(x) == IF x.t = "Element" THEN x.v ELSE <<x>>

\* C19: the Sequence returned by generate_diagram has Start as its first
\* child and End as its last child, and in between the generated nodes in
\* input order: the children of a top-level Element one by one, or the
\* single generated node of any other root.
C19_StartEnd ==
    Generated =>
        /\ diagram.v.n = "Sequence"
        /\ Len(diagram.v.children) = Len(TopLevel(parsed.v)) + 2
        /\ diagram.v.children[1] = DStart
        /\ diagram.v.children[Len(diagram.v.children)] = DEnd
        /\ \A i \in 1..Len(TopLevel(parsed.v)) :
              /\ diagram.v.children[i + 1].n = KindOf(TopLevel(parsed.v)[i])
              /\ GOk(diagram.v.children[i + 1])
                    = generate_diagram_element(TopLevel(parsed.v)[i])

\* a built Element of a Terminal and a class is generated: Start, the two
\* nodes in input order, End
C19_Witness ==
    /\ Generated
    /\ text = <<>>
    /\ parsed.v = Element(<<Terminal(<<"a">>), Character(CAny(<<CTerminal("a")>>))>>)
    /\ diagram.v = Sequence(<<DStart, DTerminal(<<"a">>),
                              Stack(FALSE, << <<"a">> >>), DEnd>>)

----------------------------------------------------------------------------
(* The text mode: a top-level Alternation *)

\* sub occurs in line
Contains(line, sub) ==
    \E i \in 0..(Len(line) - Len(sub)) : SubSeq(line, i + 1, i + Len(sub)) = sub

\* the rendering of a branch on its own
BranchRendering(x) == render_text_element(x, 0, <<>>).v

\* the text mode has rendered the lines of the branches: one line for each
\* branch, in input order, and an OR between a line and the next
BranchLines(lines, branches) ==
    /\ Len(lines) = Len(branches)
    /\ \A k \in 1..Len(branches) :
           Contains(lines[k], BranchRendering(branches[k]))
    /\ \A k \in 2..Len(lines) :
           \/ Contains(lines[k], <<"O", "R">>)
           \/ Contains(lines[k - 1], <<"O", "R">>)

\* C20: render_text of parse("a|b") succeeds and renders the two branches
\* 'a' and 'b', in input order, as two lines joined by "OR"; a top-level
\* Alternation of n branches yields the n branch renderings in input order
\* joined by OR.
C20_AlternationText ==
    /\ (pc = "text" /\ text = <<"a", "|", "b">>) =>
           /\ rendered.k = "Ok"
           /\ Len(rendered.v) = 2
           /\ Contains(rendered.v[1], <<"'", "a", "'">>)
           /\ Contains(rendered.v[2], <<"'", "b", "'">>)
    /\ (pc = "text" /\ parsed.v.t = "Alternation" /\ rendered.k = "Ok") =>
           BranchLines(rendered.v, parsed.v.v)

----------------------------------------------------------------------------
(* Several calls: determinism and independence *)

\* the call i has a result of parse()
HasParsed(i) == calls[i].pc \notin {"idle", "new"}

CallResults(i) ==
    LET c == calls[i]
        p == parse(RegExParser(c.parser.language, c.parser.text, build))
    IN  /\ HasParsed(i) =>
              /\ c.parsed = p
              /\ c.parser.idx = p.idx
              /\ c.parser.capture_group = p.cg
        /\ c.pc \in {"generated", "rendered"} =>
              c.diagram = generate_diagram(p.v)
        /\ c.pc = "rendered" =>
              c.rows = render_diagram(generate_diagram(p.v).v, build)
        /\ c.pc = "text" => c.rendered = render_text(p.v)

\* a step changes the fields of one call at most
OwnFieldsOnly ==
    \A i \in Calls, j \in Calls :
        (calls'[i] # calls[i] /\ j # i) => calls'[j] = calls[j]

\* the table is not written once it is built
TablesFrozen == STRING_FORMAT # <<>> => STRING_FORMAT' = STRING_FORMAT

----------------------------------------------------------------------------
(* Termination of the parser *)

\* C23: parse() terminates on every finite input string: every iteration of
\* the element loop either advances the cursor by at least one character or
\* ends the loop, including when the cursor is on a ']', '}', '*' or '+'
\* that no enclosing construct is waiting for.
C23_ParseTerminates == Parsed => parsed.k # "Hang"

----------------------------------------------------------------------------
(* Literal runs: characters outside ASCII, and the escape character *)

\* the text t with an ASCII letter in the place of each character outside
\* ASCII
Ascii(t) == [i \in 1..Len(t) |-> IF t[i] \in NonAscii THEN "e" ELSE t[i]]

HasNonAscii(t) == \E i \in 1..Len(t) : t[i] \in NonAscii

\* a character that a literal run copies as it is
IsPlain(c) == c \notin SPECIAL_CHARS \cup {"\\", "."}

\* C24: for input that contains characters outside ASCII the parser behaves
\* as for ASCII input: more() is true exactly when the cursor is before the
\* end, so that peek() is never called at or past the end and the parse ends
\* as the parse of the ASCII text of the same shape does, with the cursor at
\* the same place; and a literal run copies those characters verbatim into
\* the Terminal text.
C24_NonAscii ==
    (Parsed /\ HasNonAscii(text)) =>
        /\ \A i \in 0..Len(text) : more(text, i) <=> i < Len(text)
        /\ parsed.k = parse_of(Ascii(text)).k
        /\ parsed.idx = parse_of(Ascii(text)).idx
        /\ (\A i \in 1..Len(text) : IsPlain(text[i])) =>
              parsed = Ok(Element(<<Terminal(text)>>), Len(text), 0)

\* the characters that a literal run over the whole of t holds: each escape
\* character dropped, the character after it kept
RECURSIVE Unescaped(_, _)
Unescaped(t, lang) ==
    IF t = <<>> THEN <<>>
    ELSE IF Head(t) = escape_char(lang)
    THEN IF Tail(t) = <<>> THEN <<>>
         ELSE <<Head(Tail(t))>> \o Unescaped(Tail(Tail(t)), lang)
    ELSE <<Head(t)>> \o Unescaped(Tail(t), lang)

\* t is one literal run: it begins with a plain character, and each of its
\* special characters follows an escape character that escapes it
RECURSIVE IsRun(_, _)
IsRun(t, lang) ==
    \/ t = <<>>
    \/ /\ Head(t) = escape_char(lang)
       /\ \/ Tail(t) = <<>>
          \/ IsRun(Tail(Tail(t)), lang)
    \/ /\ Head(t) # escape_char(lang)
       /\ Head(t) \notin SPECIAL_CHARS
       /\ IsRun(Tail(t), lang)

\* C25: a literal run becomes one Terminal holding the characters copied
\* verbatim; each occurrence of the language's escape character inside the
\* run is dropped and the character after it is appended literally (also
\* when that character is special or is one of w, W, d, D, s, S), after
\* which the run continues; this holds for every position of the escape
\* character, including the last character of the input.
C25_LiteralRun ==
    (/\ Parsed
     /\ text # <<>>
     /\ IsPlain(text[1])
     /\ \A i \in 1..Len(text) : text[i] \notin NonAscii
     /\ IsRun(text, language)) =>
        parsed = Ok(Element(<<Terminal(Unescaped(text, language))>>),
                    Len(text), 0)

----------------------------------------------------------------------------
(* RegExParser::consume *)

\* C26: no input string makes parse() return Err(StringIterator(..)): where
\* consume(c) is called the character at the cursor is c (or the text has
\* ended and peek() panics), so the error is never returned.
C26_NoStringIterator ==
    Parsed => ~(parsed.k = "Err" /\ parsed.v.e = "StringIterator")

\* the named capture of the examples is parsed: consume('>') and
\* consume(')') were called after the loops that look for these characters
C26_Witness ==
    /\ Parsed
    /\ text = <<"(", "?", "<", "n", "a", "m", "e", ">", "a", ")">>
    /\ parsed.k = "Ok"
    /\ parsed.idx = Len(text)
    /\ parsed.v.v[1].t = "Capture"

----------------------------------------------------------------------------
(* Capture::draw: the frame and the label *)

\* the top edge of a frame of w columns with the label name centred on it
TopEdge(name, w) ==
    <<sym.C_TL_RND>>
        \o repeat(sym.L_HORZ_D, (w - 2 - Len(name)) \div 2)
        \o name
        \o repeat(sym.L_HORZ_D,
                  (w - 2 - Len(name)) - ((w - 2 - Len(name)) \div 2))
        \o <<sym.C_TR_RND>>

\* the inner row r inside the frame: on the entry row, between two cross
\* junctions; on the other rows, between the two dashed sides
Framed(r, entry) ==
    IF entry THEN <<sym.CROSS, sym.L_HORZ>> \o r \o <<sym.L_HORZ, sym.CROSS>>
    ELSE <<sym.L_VERT_D, " ">> \o r \o <<" ", sym.L_VERT_D>>

\* the rows d that Capture::draw returns for node, whose inner rows are inner
CaptureFramed(node, inner, d) ==
    /\ d.k = "Ok"
    /\ Len(d.d) = Len(inner) + 2
    /\ \A j \in 1..Len(d.d) : Len(d.d[j]) = width(node.inner) + 4
    /\ Len(node.name) <= width(node.inner) + 2
    /\ d.d[1] = TopEdge(node.name, width(node.inner) + 4)
    /\ d.d[Len(d.d)] =
          <<sym.C_BL_RND>> \o repeat(sym.L_HORZ_D, width(node.inner) + 2)
              \o <<sym.C_BR_RND>>
    /\ entry_height(node) = entry_height(node.inner) + 1
    /\ \A j \in 1..Len(inner) :
          d.d[j + 1] = Framed(inner[j], j = entry_height(node.inner) + 1)

CaptureDrawn(node) ==
    draw(node.inner, build).k = "Ok" =>
        CaptureFramed(node, draw(node.inner, build).d, draw(node, build))

\* C27: Capture.draw returns the inner rows framed by one dashed top edge and
\* one dashed bottom edge, every row inner width + 4 columns wide, with the
\* label (the capture's name, or "Group {index}" when unnamed) centred on
\* the top edge (left padding = floor of half the free space, right padding
\* = the rest) for every label length and every inner width, and with the
\* cross junction on row entry_height() = inner entry height + 1.
C27_CaptureFrame ==
    Generated =>
        \A i \in 1..Len(DrawNodes(diagram.v)) :
            DrawNodes(diagram.v)[i].n = "Capture" =>
                CaptureDrawn(DrawNodes(diagram.v)[i])

----------------------------------------------------------------------------
(* The text mode: the highlight spans *)

\* h is one of the structural headers: "EXACTLY:", "EXACTLY n:",
\* "n OR MORE:", "BETWEEN n AND m:", "MATCH:", "DON'T MATCH:"
IsHeader(h) ==
    \/ h = TextLabels.EXACTLY_
    \/ h = <<"M", "A", "T", "C", "H", ":">>
    \/ h = <<"D", "O", "N", "'", "T", " ", "M", "A", "T", "C", "H", ":">>
    \/ \E k \in 1..Len(h) :
          /\ IsDigits(SubSeq(h, 1, k))
          /\ SubSeq(h, k + 1, Len(h)) = TextLabels.OR_MORE
    \/ \E k \in 1..Len(h) :
          /\ SubSeq(h, 1, 8) = TextLabels.EXACTLY
          /\ IsDigits(SubSeq(h, 9, 8 + k))
          /\ SubSeq(h, 9 + k, Len(h)) = <<":">>
    \/ \E k \in 1..Len(h), l \in 1..Len(h) :
          /\ SubSeq(h, 1, 8) = TextLabels.BETWEEN
          /\ IsDigits(SubSeq(h, 9, 8 + k))
          /\ SubSeq(h, 9 + k, 13 + k) = TextLabels.AND
          /\ IsDigits(SubSeq(h, 14 + k, 13 + k + l))
          /\ SubSeq(h, 14 + k + l, Len(h)) = <<":">>

\* the span (line, start_col, end_col) lies within the lines and covers a
\* header
SpanOnHeader(span, lines) ==
    /\ span[1] < Len(lines)
    /\ span[2] <= span[3]
    /\ span[3] <= byte_len(lines[span[1] + 1])
    /\ IsHeader(SubSeq(lines[span[1] + 1], span[2] + 1, span[3]))

\* C28: every highlight span (line, start_col, end_col) returned by
\* render_text satisfies line < number of returned lines and start_col <=
\* end_col <= length of that line, and the text it covers on that line is
\* exactly a structural header, also when repetitions or classes are nested
\* inside repetitions or alternations.
C28_HighlightSpans ==
    (pc = "text" /\ rendered.k = "Ok") =>
        \A i \in 1..Len(rendered.hl) : SpanOnHeader(rendered.hl[i], rendered.v)

----------------------------------------------------------------------------
(* The end of the parse *)

\* C29: whenever parse() returns Ok(ast), the cursor is at the end of the
\* input (idx equals the number of characters): no suffix of the input (for
\* example the text after a ')' that has no opening '(') is silently
\* ignored.
C29_WholeInputParsed ==
    (Parsed /\ parsed.k = "Ok") => parsed.idx = Len(text)

----------------------------------------------------------------------------
(* The counts of a quantifier *)

\* the decimal value of the digit string ds, exact, as [hi, lo] with
\* value = hi * 2^16 + lo and lo below 2^16: it is in the range of u32 when
\* hi is below 2^16 too
RECURSIVE Exact(_)
Exact(ds) ==
    IF ds = <<>> THEN [hi |-> 0, lo |-> 0]
    ELSE LET v   == Exact(SubSeq(ds, 1, Len(ds) - 1))
             lo2 == v.lo * 10 + to_digit(ds[Len(ds)])
         IN  [hi |-> v.hi * 10 + (lo2 \div Limb), lo |-> lo2 % Limb]

InU32(ds) == Exact(ds).hi < Limb

\* the body of a quantifier with the digit strings n and m (<<>>: none) and
\* its type with the exact values as counts
CountForms ==
    {[body |-> n, type |-> Exactly(Exact(n)), counts |-> {n}] :
        n \in CountDigits}
    \cup {[body |-> n \o <<",">>, type |-> OrMore(Exact(n)), counts |-> {n}] :
            n \in CountDigits}
    \cup {[body |-> n \o <<",">> \o m, type |-> Between(Exact(n), Exact(m)),
           counts |-> {n, m}] : n \in CountDigits \cup {<<"1">>}, m \in CountDigits}

\* the text is "a{body}" for the form f: the parse returns the Repetition of
\* the type of f, whose counts are the values of the digit strings and are
\* in the range of u32
CountsExact(f) ==
    text = <<"a", "{">> \o f.body \o <<"}">> =>
        /\ parsed = Ok(Element(<<Repetition(f.type, Terminal(<<"a">>))>>),
                       Len(text), 0)
        /\ \A ds \in f.counts : InU32(ds)

\* C30: in a quantifier body each accumulated count equals the decimal value
\* of its whole digit string (leading zeros allowed) and stays within the
\* unsigned 32-bit range of the count type: no digit string makes the
\* accumulation overflow, wrap modulo 2^32 or abort the call.
C30_CountsInRange == Parsed => \A f \in CountForms : CountsExact(f)

====
